---- MODULE Spec2Model ----
(***************************************************************************)
(* Model of the KML parser (lib/kml-parser.ts): parseKml and the functions *)
(* it calls.  A text is a sequence of one-character strings; an optional   *)
(* value (a JavaScript value that may be undefined/null) is a sequence of  *)
(* length 0 (absent) or 1 (present).                                       *)
(*                                                                         *)
(* Four specifications share the variables: Spec is one call of parseKml,  *)
(* SpecKmz one call of parseKmz (lib/kmz-parser.ts) with the call of       *)
(* parseKml it makes, SpecPage the upload handler of the viewer page       *)
(* (app/viewer/page.tsx), SpecFn a call of one of the pure functions.      *)
(***************************************************************************)
EXTENDS Integers, Sequences, FiniteSets, TLC

\* ------------------------------------------------------------------ bounds
\* Largest number of Placemark blocks in an input document.
MaxPlacemarks == 2
\* Largest number of Style / StyleMap nodes in an input document.
MaxStyleNodes == 2

\* ------------------------------------------------------- optional values
Undefined == <<>>
Some(x) == <<x>>
IsDefined(o) == Len(o) > 0
Get(o) == o[1]

\* ------------------------------------------------------------ text helpers
\* The value Number.parseFloat gives for text that starts with no digit.
NaN == 0 - 1

IsNaN(x) == x = NaN

IsSpace(c) == c = " "

IsDigit(c) == c \in {"0", "1", "2", "3"}

DigitValue(c) == CASE c = "0" -> 0 [] c = "1" -> 1 [] c = "2" -> 2 [] c = "3" -> 3

\* String.prototype.trim
RECURSIVE TrimLeft(_)
TrimLeft(s) == IF s # <<>> /\ IsSpace(Head(s)) THEN TrimLeft(Tail(s)) ELSE s

RECURSIVE TrimRight(_)
TrimRight(s) ==
  IF s # <<>> /\ IsSpace(s[Len(s)]) THEN TrimRight(SubSeq(s, 1, Len(s) - 1)) ELSE s

Trim(s) == TrimRight(TrimLeft(s))

\* s.replace(/\s+/g, " "): every run of whitespace becomes one space.
RECURSIVE CollapseSpaces(_)
CollapseSpaces(s) ==
  IF s = <<>> THEN <<>>
  ELSE IF IsSpace(Head(s))
       THEN <<" ">> \o CollapseSpaces(TrimLeft(s))
       ELSE <<Head(s)>> \o CollapseSpaces(Tail(s))

\* s.replace(/,\s+/g, ","): whitespace right after a comma is removed.
RECURSIVE DropSpacesAfterComma(_)
DropSpacesAfterComma(s) ==
  IF s = <<>> THEN <<>>
  ELSE IF Head(s) = ","
       THEN <<",">> \o DropSpacesAfterComma(TrimLeft(Tail(s)))
       ELSE <<Head(s)>> \o DropSpacesAfterComma(Tail(s))

\* s.split(sep) for a one-character separator: the pieces, empty ones
\* included; cur is the piece being read.
RECURSIVE SplitOn(_, _, _)
SplitOn(s, sep, cur) ==
  IF s = <<>> THEN <<cur>>
  ELSE IF Head(s) = sep
       THEN <<cur>> \o SplitOn(Tail(s), sep, <<>>)
       ELSE SplitOn(Tail(s), sep, Append(cur, Head(s)))

\* s.split(/\s+/).filter(Boolean): the non-empty whitespace-separated tokens.
SplitTokens(s) == SelectSeq(SplitOn(CollapseSpaces(s), " ", <<>>), LAMBDA t : t # <<>>)

\* The number read from the leading digits of s, acc being the digits read so far.
RECURSIVE ReadDigits(_, _)
ReadDigits(s, acc) ==
  IF s # <<>> /\ IsDigit(Head(s)) THEN ReadDigits(Tail(s), 10 * acc + DigitValue(Head(s)))
  ELSE acc

\* Number.parseFloat of an optional text: NaN for undefined and for text whose
\* first non-blank character is no digit, else the longest numeric prefix.
parseFloat(o) ==
  IF ~IsDefined(o) THEN NaN
  ELSE LET s == TrimLeft(Get(o))
       IN IF s = <<>> \/ ~IsDigit(Head(s)) THEN NaN ELSE ReadDigits(s, 0)

\* parts[i] of a JavaScript array: undefined past the end.
At(parts, i) == IF i <= Len(parts) THEN Some(parts[i]) ELSE Undefined

\* A JavaScript string used as a condition: defined and not empty.
Truthy(o) == IsDefined(o) /\ Get(o) # <<>>

\* x || undefined
OrUndefined(o) == IF Truthy(o) THEN o ELSE Undefined

\* s.startsWith("#")
StartsWithHash(s) == s # <<>> /\ Head(s) = "#"

\* What a call gives its caller: a thrown exception or a returned value.
Returned(value) == [threw |-> FALSE, value |-> value]
Thrown(value) == [threw |-> TRUE, value |-> value]

\* ------------------------------------------------------ Coordinate Tokenizer
\* One "lng,lat[,alt]" token to a triple; (0,0,0) when lng or lat is no number.
ParseTuple(coordStr) ==
  LET parts == SplitOn(coordStr, ",", <<>>)
      lng == parseFloat(At(parts, 1))
      lat == parseFloat(At(parts, 2))
      alt == IF Len(parts) > 2 THEN parseFloat(At(parts, 3)) ELSE 0
  IN IF IsNaN(lng) \/ IsNaN(lat) THEN <<0, 0, 0>> ELSE <<lng, lat, alt>>

\* Variant of TokenizeCleaned that leaves the whitespace after commas in.
TokenizeKeepingCommaSpaces(s) ==
  LET coordStrings == SplitTokens(CollapseSpaces(Trim(s)))
  IN [i \in 1..Len(coordStrings) |-> ParseTuple(coordStrings[i])]

\* The cleaned string of both tokenizers, split into tokens, each mapped.
TokenizeCleaned(s) ==
  LET cleanedString == DropSpacesAfterComma(CollapseSpaces(Trim(s)))
      coordStrings == SplitTokens(cleanedString)
  IN [i \in 1..Len(coordStrings) |-> ParseTuple(coordStrings[i])]

\* parseCoordinates(coordinatesString): the structured path's tokenizer.
parseCoordinates(coordinatesString) ==
  IF ~Truthy(coordinatesString) THEN <<>> ELSE TokenizeCleaned(Get(coordinatesString))

\* parseCoordinatesText(coordsText, type): the salvage path's tokenizer.
parseCoordinatesText(coordsText) == TokenizeCleaned(coordsText)

\* ------------------------------------------------------------- Color Codec
DefaultColor == <<"#", "3", "7", "0", "0", "f", "f">>

\* Variant of kmlColorToHex that keeps the order of the input's channels.
kmlColorToHexSameOrder(kmlColor) ==
  IF ~Truthy(kmlColor) \/ Len(Get(kmlColor)) # 8 THEN DefaultColor
  ELSE <<"#">> \o SubSeq(Get(kmlColor), 3, 8)

\* kmlColorToHex(kmlColor): aabbggrr to #rrggbb.
\* The argument is optional: the test of line 539 covers undefined and "".
kmlColorToHex(kmlColor) ==
  IF ~Truthy(kmlColor) \/ Len(Get(kmlColor)) # 8 THEN DefaultColor
  ELSE LET blue == SubSeq(Get(kmlColor), 3, 4)
           green == SubSeq(Get(kmlColor), 5, 6)
           red == SubSeq(Get(kmlColor), 7, 8)
       IN <<"#">> \o red \o green \o blue

\* -------------------------------------------------------- Geodesic Metrics
\* Distances and areas are real numbers built with sin, cos and atan2; the
\* model keeps them as terms.  A length is the sequence of its Haversine
\* summands (the empty sequence is 0), an area the sequence of the summands
\* of the line integral (the empty sequence is 0).
calculateDistance(lat1, lon1, lat2, lon2) == <<lat1, lon1, lat2, lon2>>

calculatePolygonArea(coordinates) ==
  IF Len(coordinates) < 3 THEN <<>>
  ELSE [i \in 1..Len(coordinates) |->
          LET j == (i % Len(coordinates)) + 1
          IN <<coordinates[i][1], coordinates[i][2], coordinates[j][1], coordinates[j][2]>>]

\* Variant of LineLength that also counts the segment from the last point
\* back to the first.
LineLengthClosed(coordinates) ==
  [k \in 1..Len(coordinates) |->
      calculateDistance(coordinates[k][2], coordinates[k][1],
                        coordinates[(k % Len(coordinates)) + 1][2],
                        coordinates[(k % Len(coordinates)) + 1][1])]

\* The loop of parsePlacemarks that sums the segment lengths of a LineString.
LineLength(coordinates) ==
  [k \in 1..(Len(coordinates) - 1) |->
      calculateDistance(coordinates[k][2], coordinates[k][1],
                        coordinates[k + 1][2], coordinates[k + 1][1])]

\* ----------------------------------------------------------- Style Resolver
\* A style node of the document is
\*   [tag, id, line, poly, icon, pairs]
\* tag "Style" or "StyleMap"; id the optional id attribute; line, poly, icon
\* the optional LineStyle [color, width], PolyStyle [color, fill, outline] and
\* IconStyle [scale, href] children, each field an optional text; pairs the
\* Pair children [key, styleUrl] of a StyleMap.
\* Opacities are kept in hundredths: 0.5 is 50, 1 is 100, 0.2 is 20.
Normal == <<"n", "o", "r", "m", "a", "l">>

One == <<"1">>

\* The KmlStyle object built from one Style node.
StyleOf(styleEl) ==
  LET lineStyle == styleEl.line
      polyStyle == styleEl.poly
      iconStyle == styleEl.icon
      has(o, f) == IsDefined(o) /\ Truthy(Get(o)[f])
      txt(o, f) == Get(Get(o)[f])
  IN [color |-> IF has(lineStyle, "color")
                THEN Some(kmlColorToHex(Get(lineStyle).color)) ELSE Undefined,
      width |-> IF has(lineStyle, "width")
                THEN Some(parseFloat(Get(lineStyle).width)) ELSE Undefined,
      fillColor |-> IF has(polyStyle, "color")
                    THEN Some(kmlColorToHex(Get(polyStyle).color)) ELSE Undefined,
      fillOpacity |-> IF has(polyStyle, "fill")
                      THEN Some(IF txt(polyStyle, "fill") = One THEN 50 ELSE 0)
                      ELSE Undefined,
      strokeOpacity |-> IF has(polyStyle, "outline")
                        THEN Some(IF txt(polyStyle, "outline") = One THEN 100 ELSE 0)
                        ELSE Undefined,
      iconScale |-> IF has(iconStyle, "scale")
                    THEN Some(parseFloat(Get(iconStyle).scale)) ELSE Undefined,
      iconUrl |-> IF has(iconStyle, "href") THEN Get(iconStyle).href ELSE Undefined]

\* The Style Table: a function from ids to [ref, style], ref being the position
\* in the document of the Style node whose object the entry holds (two entries
\* with the same ref are the same object).
EmptyTable == [x \in {} |-> Undefined]

TableGet(styles, key) == IF key \in DOMAIN styles THEN Some(styles[key]) ELSE Undefined

TableSet(styles, key, value) == (key :> value) @@ styles

\* Array.from(styleMap.querySelectorAll("Pair")).find(key is "normal")
RECURSIVE NormalPair(_)
NormalPair(pairs) ==
  IF pairs = <<>> THEN Undefined
  ELSE IF IsDefined(Head(pairs).key) /\ Get(Head(pairs).key) = Normal
       THEN Some(Head(pairs))
       ELSE NormalPair(Tail(pairs))

\* The body of styleElements.forEach for the Style node at position pos.
RegisterStyle(styles, styleEl, pos) ==
  IF ~Truthy(styleEl.id) THEN styles
  ELSE TableSet(styles, Get(styleEl.id), [ref |-> pos, style |-> StyleOf(styleEl)])

\* Variant of ResolveStyleMap that registers an empty style for a StyleMap
\* whose reference is not in the table.
ResolveStyleMapAlways(styles, styleMap) ==
  IF ~Truthy(styleMap.id) THEN styles
  ELSE LET normalPair == NormalPair(styleMap.pairs)
           styleUrl == IF IsDefined(normalPair) THEN Get(normalPair).styleUrl ELSE Undefined
       IN IF Truthy(styleUrl) /\ StartsWithHash(Get(styleUrl))
          THEN LET referencedStyle == TableGet(styles, Tail(Get(styleUrl)))
               IN IF IsDefined(referencedStyle)
                  THEN TableSet(styles, Get(styleMap.id), Get(referencedStyle))
                  ELSE TableSet(styles, Get(styleMap.id),
                                [ref |-> 0, style |-> StyleOf(styleMap)])
          ELSE styles

\* Variant of ResolveStyleMap that registers a copy of the referenced style.
ResolveStyleMapCopy(styles, styleMap) ==
  IF ~Truthy(styleMap.id) THEN styles
  ELSE LET normalPair == NormalPair(styleMap.pairs)
           styleUrl == IF IsDefined(normalPair) THEN Get(normalPair).styleUrl ELSE Undefined
       IN IF Truthy(styleUrl) /\ StartsWithHash(Get(styleUrl))
          THEN LET referencedStyle == TableGet(styles, Tail(Get(styleUrl)))
               IN IF IsDefined(referencedStyle)
                  THEN TableSet(styles, Get(styleMap.id),
                                [ref |-> 0, style |-> Get(referencedStyle).style])
                  ELSE styles
          ELSE styles

\* The body of styleMaps.forEach for one StyleMap node.
ResolveStyleMap(styles, styleMap) ==
  IF ~Truthy(styleMap.id) THEN styles
  ELSE LET normalPair == NormalPair(styleMap.pairs)
           styleUrl == IF IsDefined(normalPair) THEN Get(normalPair).styleUrl ELSE Undefined
       IN IF Truthy(styleUrl) /\ StartsWithHash(Get(styleUrl))
          THEN LET referencedStyle == TableGet(styles, Tail(Get(styleUrl)))
               IN IF IsDefined(referencedStyle)
                  THEN TableSet(styles, Get(styleMap.id), Get(referencedStyle))
                  ELSE styles
          ELSE styles

\* The positions of the nodes with the given tag, in document order.
RECURSIVE PositionsOf(_, _, _)
PositionsOf(nodes, tag, i) ==
  IF i > Len(nodes) THEN <<>>
  ELSE (IF nodes[i].tag = tag THEN <<i>> ELSE <<>>) \o PositionsOf(nodes, tag, i + 1)

\* Variant of StyleOrder that visits the nodes as they come in the document.
StyleOrderOfDocument(nodes) == [i \in 1..Len(nodes) |-> i]

\* The order parseStyles visits the nodes in: every Style, then every StyleMap.
StyleOrder(nodes) == PositionsOf(nodes, "Style", 1) \o PositionsOf(nodes, "StyleMap", 1)

RECURSIVE StylesFold(_, _, _, _)
StylesFold(nodes, order, n, styles) ==
  IF n = 0 THEN styles
  ELSE LET before == StylesFold(nodes, order, n - 1, styles)
           node == nodes[order[n]]
       IN IF node.tag = "Style" THEN RegisterStyle(before, node, order[n])
          ELSE ResolveStyleMap(before, node)

\* parseStyles(xmlDoc).  raiseAt = 0: no exception; raiseAt = k: the visit of
\* the k-th node raises, the catch logs it and the table built so far is
\* returned.
parseStyles(nodes, raiseAt) ==
  LET order == StyleOrder(nodes)
      done == IF raiseAt = 0 THEN Len(order) ELSE raiseAt - 1
  IN Returned(StylesFold(nodes, order, done, EmptyTable))

\* ------------------------------------------------------- Geometry Extractor
\* A Placemark block of the document is
\*   [name, description, styleUrl, data, multi, geoms]
\* name, description, styleUrl: the optional text of the first such
\* descendant; data: the ExtendedData Data nodes [name, value]; multi: whether
\* the block has a MultiGeometry node; geoms: the Point, LineString and
\* Polygon descendants in document order, each
\*   [tag, inMulti, coords]
\* inMulti telling whether it lies inside the MultiGeometry node and coords
\* its coordinates descendants in document order, each [role, text] with role
\* "outer" or "inner" (inside outerBoundaryIs/innerBoundaryIs LinearRing) or
\* "plain".
\*
\* An Element is [id, type, name, description, coordinates, style,
\* extendedData, metadata].  coordinates is [depth, v]: depth 1 a triple,
\* depth 2 a sequence of triples, depth 3 a sequence of rings.
MultiSuffix == <<" ", "(", "M", "u", "l", "t", "i", ")">>

\* Variant of FirstGeom that passes over a geometry without coordinates.
RECURSIVE FirstGeomWithCoordinates(_, _, _)
FirstGeomWithCoordinates(geoms, tag, onlyMulti) ==
  IF geoms = <<>> THEN Undefined
  ELSE IF /\ Head(geoms).tag = tag
          /\ (Head(geoms).inMulti \/ ~onlyMulti)
          /\ \E i \in 1..Len(Head(geoms).coords) :
                Len(parseCoordinates(Some(Head(geoms).coords[i].text))) > 0
       THEN Some(Head(geoms))
       ELSE FirstGeomWithCoordinates(Tail(geoms), tag, onlyMulti)

\* node.querySelector(tag) over the geometry descendants.
RECURSIVE FirstGeom(_, _, _)
FirstGeom(geoms, tag, onlyMulti) ==
  IF geoms = <<>> THEN Undefined
  ELSE IF Head(geoms).tag = tag /\ (Head(geoms).inMulti \/ ~onlyMulti)
       THEN Some(Head(geoms))
       ELSE FirstGeom(Tail(geoms), tag, onlyMulti)

\* geometry.querySelector("coordinates")?.textContent
FirstCoordinates(geom) ==
  IF ~IsDefined(geom) \/ Get(geom).coords = <<>> THEN Undefined
  ELSE Some(Get(geom).coords[1].text)

CoordsWithRole(geom, role) == SelectSeq(geom.coords, LAMBDA c : c.role = role)

\* polygon.querySelector("outerBoundaryIs LinearRing coordinates")?.textContent
OuterBoundary(polygon) ==
  LET outer == CoordsWithRole(polygon, "outer")
  IN IF outer = <<>> THEN Undefined ELSE Some(outer[1].text)

\* The rings pushed by innerBoundaries.forEach.
InnerRings(polygon) ==
  LET inner == CoordsWithRole(polygon, "inner")
      parsed == [i \in 1..Len(inner) |-> parseCoordinates(Some(inner[i].text))]
  IN SelectSeq(parsed, LAMBDA r : Len(r) > 0)

\* The rings of a Polygon placemark: the outer boundary when it has
\* coordinates, then every inner boundary that has coordinates.
PolygonRings(polygon) ==
  LET outerBoundary == OuterBoundary(polygon)
      outerCoords == parseCoordinates(outerBoundary)
  IN (IF Truthy(outerBoundary) /\ Len(outerCoords) > 0 THEN <<outerCoords>> ELSE <<>>)
     \o InnerRings(polygon)

\* The extendedData object filled by dataElements.forEach.
RECURSIVE ExtendedDataOf(_)
ExtendedDataOf(data) ==
  IF data = <<>> THEN EmptyTable
  ELSE LET dataEl == data[Len(data)]
           before == ExtendedDataOf(SubSeq(data, 1, Len(data) - 1))
       IN IF Truthy(dataEl.name) /\ Truthy(dataEl.value)
          THEN TableSet(before, Get(dataEl.name), Get(dataEl.value))
          ELSE before

\* The style looked up for a placemark.
PlacemarkStyle(placemark, styles) ==
  IF Truthy(placemark.styleUrl) /\ StartsWithHash(Get(placemark.styleUrl))
  THEN TableGet(styles, Tail(Get(placemark.styleUrl)))
  ELSE Undefined

\* The elements (none or one) the body of placemarks.forEach pushes for one
\* Placemark that raises no exception; id is the identifier uuidv4 gives.
ExtractPlacemark(placemark, styles, id) ==
  LET name == OrUndefined(placemark.name)
      description == OrUndefined(placemark.description)
      style == PlacemarkStyle(placemark, styles)
      extendedData == ExtendedDataOf(placemark.data)
      base == [id |-> id, name |-> name, description |-> description, style |-> style,
               extendedData |-> IF DOMAIN extendedData # {} THEN Some(extendedData)
                                ELSE Undefined]
      multiName == IF IsDefined(name) THEN Some(Get(name) \o MultiSuffix) ELSE Undefined
      el(type, nm, depth, v, metadata) ==
        [id |-> base.id, type |-> type, name |-> nm, description |-> base.description,
         coordinates |-> [depth |-> depth, v |-> v], style |-> base.style,
         extendedData |-> base.extendedData, metadata |-> metadata]
      point == FirstGeom(placemark.geoms, "Point", FALSE)
      lineString == FirstGeom(placemark.geoms, "LineString", FALSE)
      polygon == FirstGeom(placemark.geoms, "Polygon", FALSE)
      mPoint == FirstGeom(placemark.geoms, "Point", TRUE)
      mLineString == FirstGeom(placemark.geoms, "LineString", TRUE)
      mPolygon == FirstGeom(placemark.geoms, "Polygon", TRUE)
  IN IF IsDefined(point)
     THEN LET coordinates == parseCoordinates(FirstCoordinates(point))
          IN IF Len(coordinates) > 0
             THEN <<el("Point", name, 1, coordinates[1], Undefined)>>
             ELSE <<>>
     ELSE IF IsDefined(lineString)
     THEN LET coordinates == parseCoordinates(FirstCoordinates(lineString))
          IN IF Len(coordinates) > 0
             THEN <<el("LineString", name, 2, coordinates,
                       Some([length |-> LineLength(coordinates)]))>>
             ELSE <<>>
     ELSE IF IsDefined(polygon)
     THEN LET rings == PolygonRings(Get(polygon))
          IN IF Len(rings) > 0
             THEN <<el("Polygon", name, 3, rings,
                       Some([area |-> calculatePolygonArea(rings[1])]))>>
             ELSE <<>>
     ELSE IF placemark.multi
     THEN IF IsDefined(mPoint)
          THEN LET coordinates == parseCoordinates(FirstCoordinates(mPoint))
               IN IF Len(coordinates) > 0
                  THEN <<el("Point", multiName, 1, coordinates[1], Undefined)>>
                  ELSE <<>>
          ELSE IF IsDefined(mLineString)
          THEN LET coordinates == parseCoordinates(FirstCoordinates(mLineString))
               IN IF Len(coordinates) > 0
                  THEN <<el("LineString", multiName, 2, coordinates, Undefined)>>
                  ELSE <<>>
          ELSE IF IsDefined(mPolygon)
          THEN LET outerBoundary == OuterBoundary(Get(mPolygon))
                   coordinates == parseCoordinates(outerBoundary)
               IN IF Truthy(outerBoundary) /\ Len(coordinates) > 0
                  THEN <<el("Polygon", multiName, 3, <<coordinates>>, Undefined)>>
                  ELSE <<>>
          ELSE <<>>
     ELSE <<>>

\* parsePlacemarks(xmlDoc, styles): raised is the set of positions of the
\* Placemarks whose extraction raises an exception, caught per Placemark;
\* elements collects what was pushed so far.
RECURSIVE PlacemarksFold(_, _, _, _)
PlacemarksFold(placemarks, styles, raised, n) ==
  IF n = 0 THEN <<>>
  ELSE LET elements == PlacemarksFold(placemarks, styles, raised, n - 1)
       IN IF n \in raised THEN elements
          ELSE elements \o ExtractPlacemark(placemarks[n], styles, Len(elements) + 1)

\* Variant of parsePlacemarks without any try/catch: an exception reaches
\* the caller.
parsePlacemarksNoCatch(placemarks, styles, raised) ==
  IF raised \cap (1..Len(placemarks)) # {}
  THEN Thrown(<<>>)
  ELSE Returned(PlacemarksFold(placemarks, styles, raised, Len(placemarks)))

\* Variant of parsePlacemarks with the outer try/catch only: the first
\* exception ends the loop and the elements pushed so far are returned.
parsePlacemarksOuterCatch(placemarks, styles, raised) ==
  LET hit == raised \cap (1..Len(placemarks))
      first == IF hit = {} THEN Len(placemarks) + 1
               ELSE CHOOSE i \in hit : \A j \in hit : i <= j
  IN Returned(PlacemarksFold(placemarks, styles, {}, first - 1))

parsePlacemarks(placemarks, styles, raised) ==
  Returned(PlacemarksFold(placemarks, styles, raised, Len(placemarks)))

\* ------------------------------------------------------------ Salvage Parser
\* Variant of DefaultStyle with the fill colour left out.
DefaultStyleLineOnly ==
  [color |-> Some(<<"#", "3", "7", "0", "0", "f", "f">>), width |-> Undefined,
   fillColor |-> Undefined, fillOpacity |-> Undefined,
   strokeOpacity |-> Undefined, iconScale |-> Undefined, iconUrl |-> Undefined]

\* The fixed style object literal of fallbackParse (ref 0: not from the table).
DefaultStyle ==
  [color |-> Some(<<"#", "3", "7", "0", "0", "f", "f">>), width |-> Undefined,
   fillColor |-> Some(<<"#", "4", "2", "e", "e", "d", "c">>), fillOpacity |-> Some(20),
   strokeOpacity |-> Undefined, iconScale |-> Undefined, iconUrl |-> Undefined]

\* m ? m[1].trim() : undefined
TrimmedMatch(o) == IF IsDefined(o) THEN Some(Trim(Get(o))) ELSE Undefined

\* The elements (none or one) one iteration of the while loop pushes for the
\* Placemark block the regular expression matched.
SalvageBlock(block, id) ==
  LET name == TrimmedMatch(block.name)
      description == TrimmedMatch(block.description)
      pointMatch == FirstGeom(block.geoms, "Point", FALSE)
      lineMatch == FirstGeom(block.geoms, "LineString", FALSE)
      polygonMatch == FirstGeom(block.geoms, "Polygon", FALSE)
      type == IF IsDefined(pointMatch) THEN Some("Point")
              ELSE IF IsDefined(lineMatch) THEN Some("LineString")
              ELSE IF IsDefined(polygonMatch) THEN Some("Polygon")
              ELSE Undefined
      geometry == IF IsDefined(pointMatch) THEN pointMatch
                  ELSE IF IsDefined(lineMatch) THEN lineMatch
                  ELSE polygonMatch
      coordsMatch == FirstCoordinates(geometry)
      coordinates == parseCoordinatesText(Trim(Get(coordsMatch)))
  IN IF IsDefined(type) /\ IsDefined(coordsMatch) /\ Len(coordinates) > 0
     THEN <<[id |-> id, type |-> Get(type), name |-> name, description |-> description,
             coordinates |-> IF Get(type) = "Polygon"
                             THEN [depth |-> 3, v |-> <<coordinates>>]
                             ELSE [depth |-> 2, v |-> coordinates],
             style |-> Some([ref |-> 0, style |-> DefaultStyle]),
             extendedData |-> Undefined, metadata |-> Undefined]>>
     ELSE <<>>

RECURSIVE SalvageFold(_, _)
SalvageFold(blocks, n) ==
  IF n = 0 THEN <<>>
  ELSE LET elements == SalvageFold(blocks, n - 1)
       IN elements \o SalvageBlock(blocks[n], Len(elements) + 1)

\* A KmlData value.
KmlData(name, description, elements) ==
  [name |-> name, description |-> description, elements |-> elements]

\* fallbackParse(kmlString).  raise: the scan raises an exception, which the
\* catch turns into an empty KmlData.
fallbackParse(kmlString, raise) ==
  IF raise THEN Returned(KmlData(Undefined, Undefined, <<>>))
  ELSE Returned(KmlData(Undefined, Undefined,
                        SalvageFold(kmlString.placemarks, Len(kmlString.placemarks))))

\* -------------------------------------------------------- Namespace repair
\* The text handed to parseKml is
\*   [empty, rootTag, closed, usesGx, document, styleNodes, placemarks]
\* empty: the text is ""; rootTag: the attribute names of the opening <kml
\* tag, absent when the text has no "<kml"; closed: the markup is balanced
\* and properly nested; usesGx: some element name has the gx: prefix;
\* document: the optional Document block [name, description]; styleNodes and
\* placemarks: the Style/StyleMap and Placemark blocks in document order.
KML_NAMESPACES == <<"xmlns", "xmlns:xsi", "xmlns:gx", "xmlns:atom", "xmlns:kml">>

\* attr.includes(ns) for an attribute name: "xmlns" is a substring of every
\* prefixed declaration, the other names only of themselves.
AttrIncludes(attr, ns) ==
  attr = ns \/ (ns = "xmlns" /\ attr \in {"xmlns:xsi", "xmlns:gx", "xmlns:atom", "xmlns:kml"})

\* kmlTag.includes(ns)
TagIncludes(kmlTag, ns) == \E i \in 1..Len(kmlTag) : AttrIncludes(kmlTag[i], ns)

\* preprocessKml(kmlString)
preprocessKml(kmlString) ==
  IF ~IsDefined(kmlString.rootTag)
  THEN [kmlString EXCEPT !.rootTag = Some(<<"xmlns">>)]
  ELSE LET kmlTag == Get(kmlString.rootTag)
           updatedTag == kmlTag \o SelectSeq(KML_NAMESPACES, LAMBDA ns : ~TagIncludes(kmlTag, ns))
       IN [kmlString EXCEPT !.rootTag = Some(updatedTag)]

\* xmlDoc.querySelector("parsererror") after parser.parseFromString: the XML
\* parser rejects unbalanced markup and a prefix the root does not declare.
ParserError(processedKmlString) ==
  \/ ~processedKmlString.closed
  \/ /\ processedKmlString.usesGx
     /\ \A i \in 1..Len(Get(processedKmlString.rootTag)) :
           Get(processedKmlString.rootTag)[i] # "xmlns:gx"

\* Variant of SalvageInput that hands over the repaired text.
SalvageInputRepaired(kmlString, processedKmlString) == processedKmlString

\* The text parseKml hands to fallbackParse on a parser error.
SalvageInput(kmlString, processedKmlString) == kmlString

\* Variant of InvalidInput that lets the empty string through.
InvalidInputTypeOnly(input) == input.type # "string"

\* The check that opens parseKml: !kmlString || typeof kmlString !== "string"
InvalidInput(input) == input.type # "string" \/ input.text.empty

\* ------------------------------------------------------------------ inputs
\* Coordinate texts: "1,2"  "1,2 2,1,3"  "0,0 1,0 1,1"  " "  "x,1".
COne == <<"1", ",", "2">>
CLine == <<"1", ",", "2", " ", "2", ",", "1", ",", "3">>
CRing == <<"0", ",", "0", " ", "1", ",", "0", " ", "1", ",", "1">>
CBlank == <<" ">>
CBad == <<"x", ",", "1">>

NameX == <<"X">>

C(role, text) == [role |-> role, text |-> text]

G(tag, inMulti, coords) == [tag |-> tag, inMulti |-> inMulti, coords |-> coords]

Pm(name, styleUrl, data, multi, geoms) ==
  [name |-> name, description |-> Undefined, styleUrl |-> styleUrl, data |-> data,
   multi |-> multi, geoms |-> geoms]

\* Geometry of a Placemark block: the Point/LineString/Polygon descendants.
PointGeoms ==
  {<<G("Point", FALSE, <<C("plain", COne)>>)>>,
   <<G("Point", FALSE, <<C("plain", CBlank)>>)>>,
   <<G("Point", FALSE, <<>>)>>,
   <<G("Point", FALSE, <<C("plain", CBad)>>)>>}

LineGeoms ==
  {<<G("LineString", FALSE, <<C("plain", CLine)>>)>>,
   <<G("LineString", FALSE, <<C("plain", COne)>>)>>,
   <<G("LineString", FALSE, <<C("plain", CBlank)>>)>>}

PolygonGeoms ==
  {<<G("Polygon", FALSE, <<C("outer", CRing)>>)>>,
   <<G("Polygon", FALSE, <<C("outer", CRing), C("inner", COne)>>)>>,
   <<G("Polygon", FALSE, <<C("outer", CBlank), C("inner", CRing)>>)>>,
   <<G("Polygon", FALSE, <<C("inner", CRing)>>)>>,
   <<G("Polygon", FALSE, <<C("plain", CRing)>>)>>}

MixedGeoms ==
  {<<G("Point", FALSE, <<C("plain", CBlank)>>), G("LineString", FALSE, <<C("plain", CLine)>>)>>,
   <<G("LineString", FALSE, <<C("plain", CLine)>>), G("Point", FALSE, <<C("plain", COne)>>)>>}

MultiGeoms ==
  {<<G("Point", TRUE, <<C("plain", COne)>>)>>,
   <<G("LineString", TRUE, <<C("plain", CLine)>>), G("Point", TRUE, <<C("plain", COne)>>)>>,
   <<G("Polygon", TRUE, <<C("outer", CRing)>>)>>,
   <<>>}

\* Placemark blocks that differ in their geometry.
GeoPlacemarks ==
  {Pm(Some(NameX), Undefined, <<>>, FALSE, g) :
      g \in {<<>>} \cup PointGeoms \cup LineGeoms \cup PolygonGeoms \cup MixedGeoms}
  \cup {Pm(Some(NameX), Undefined, <<>>, TRUE, g) : g \in MultiGeoms}
  \cup {Pm(Undefined, Undefined, <<>>, TRUE, <<G("Point", TRUE, <<C("plain", COne)>>)>>)}

\* Placemark blocks that differ in their style reference and extended data.
StyleUrls == {<<"#", "a">>, <<"#", "m">>, <<"#", "n">>}

DataNodes ==
  <<[name |-> Some(<<"k">>), value |-> Some(<<"v">>)], [name |-> Some(<<"j">>), value |-> Undefined]>>

StylePlacemarks ==
  {Pm(Some(NameX), Some(u), <<>>, FALSE, <<G("Point", FALSE, <<C("plain", COne)>>)>>) :
      u \in StyleUrls}
  \cup {Pm(Some(NameX), Some(<<"a">>), DataNodes, FALSE,
           <<G("Point", FALSE, <<C("plain", COne)>>)>>)}

\* Style and StyleMap nodes.
KmlRed == <<"f", "f", "0", "0", "0", "0", "f", "f">>

StyleNode(tag, id, line, poly, icon, pairs) ==
  [tag |-> tag, id |-> id, line |-> line, poly |-> poly, icon |-> icon, pairs |-> pairs]

Pair(key, styleUrl) == [key |-> Some(key), styleUrl |-> Some(styleUrl)]

Highlight == <<"h">>

StyleNodes ==
  {StyleNode("Style", Some(<<"a">>),
             Some([color |-> Some(KmlRed), width |-> Some(<<"2">>)]), Undefined, Undefined, <<>>),
   StyleNode("Style", Some(<<"b">>), Undefined,
             Some([color |-> Some(<<"1">>), fill |-> Some(One), outline |-> Some(<<"0">>)]),
             Some([scale |-> Some(<<"2">>), href |-> Some(<<"u">>)]), <<>>),
   StyleNode("Style", Undefined,
             Some([color |-> Some(KmlRed), width |-> Undefined]), Undefined, Undefined, <<>>),
   StyleNode("StyleMap", Some(<<"m">>), Undefined, Undefined, Undefined,
             <<Pair(Highlight, <<"#", "b">>), Pair(Normal, <<"#", "a">>)>>),
   StyleNode("StyleMap", Some(<<"m">>), Undefined, Undefined, Undefined,
             <<Pair(Normal, <<"#", "z">>)>>),
   StyleNode("StyleMap", Some(<<"n">>), Undefined, Undefined, Undefined,
             <<Pair(Normal, <<"#", "m">>)>>)}

SeqsUpTo(S, n) == UNION {[1..k -> S] : k \in 0..n}

DocumentBlock == Some([name |-> Some(<<"D">>), description |-> Undefined])

Text(rootTag, closed, usesGx, styleNodes, placemarks) ==
  [empty |-> FALSE, rootTag |-> rootTag, closed |-> closed, usesGx |-> usesGx,
   document |-> DocumentBlock, styleNodes |-> styleNodes, placemarks |-> placemarks]

EmptyText ==
  [empty |-> TRUE, rootTag |-> Undefined, closed |-> FALSE, usesGx |-> FALSE,
   document |-> Undefined, styleNodes |-> <<>>, placemarks |-> <<>>]

RootTags == {Undefined, Some(<<>>), Some(<<"xmlns">>), Some(<<"xmlns:gx">>), Some(<<"id", "xmlns:kml">>)}

OnePoint == Pm(Some(NameX), Undefined, <<>>, FALSE, <<G("Point", FALSE, <<C("plain", COne)>>)>>)

NoFaults == [styles |-> 0, placemarks |-> {}, salvage |-> FALSE]

\* A scenario is an argument of parseKml together with the exceptions that
\* are raised inside the guarded regions while it is parsed: faults.styles is
\* the position in parseStyles' visiting order of the node whose visit raises
\* (0: none), faults.placemarks the positions of the Placemarks whose
\* extraction raises, faults.salvage whether the scan of fallbackParse raises.
Scenario(type, text, faults) == [input |-> [type |-> type, text |-> text], faults |-> faults]

\* Documents that differ in the geometry of their Placemarks, well-formed
\* and not.
GeoScenarios ==
  {Scenario("string", Text(Some(<<"xmlns">>), closed, FALSE, <<>>, pms), NoFaults) :
      closed \in BOOLEAN, pms \in SeqsUpTo(GeoPlacemarks, MaxPlacemarks)}

\* Placemark blocks of the documents in whose parse exceptions are raised.
FaultPlacemarks ==
  {Pm(Some(NameX), Undefined, <<>>, FALSE, g) :
      g \in {<<G("Point", FALSE, <<C("plain", COne)>>)>>,
             <<G("Point", FALSE, <<C("plain", CBlank)>>)>>,
             <<G("LineString", FALSE, <<C("plain", CLine)>>)>>,
             <<G("Polygon", FALSE, <<C("outer", CRing)>>)>>}}

\* Documents in whose parse exceptions are raised: by any of the Placemarks
\* of a well-formed one, by the scan of one that is not.
FaultScenarios ==
  UNION {
    {Scenario("string", Text(Some(<<"xmlns">>), TRUE, FALSE, <<>>, pms),
              [NoFaults EXCEPT !.placemarks = raised]) : raised \in SUBSET (1..Len(pms))}
    \cup
    {Scenario("string", Text(Some(<<"xmlns">>), FALSE, FALSE, <<>>, pms),
              [NoFaults EXCEPT !.salvage = TRUE])}
    : pms \in SeqsUpTo(FaultPlacemarks, MaxPlacemarks)}

\* Documents that differ in their styles and style references.
StyleScenarios ==
  UNION {
    {Scenario("string", Text(Some(<<"xmlns">>), TRUE, FALSE, nodes, pms),
              [NoFaults EXCEPT !.styles = raiseAt]) :
        raiseAt \in 0..Len(nodes), pms \in SeqsUpTo(StylePlacemarks, 1)}
    : nodes \in SeqsUpTo(StyleNodes, MaxStyleNodes)}

\* Documents that differ in their root tag and well-formedness.
RootScenarios ==
  {Scenario("string", Text(rootTag, closed, usesGx, <<>>, pms), NoFaults) :
      rootTag \in RootTags, closed \in BOOLEAN, usesGx \in BOOLEAN,
      pms \in {<<>>, <<OnePoint>>}}

\* Arguments that are no text or the empty text.
InvalidScenarios ==
  {Scenario(type, EmptyText, NoFaults) : type \in {"undefined", "object", "string"}}

\* A Style, a StyleMap that refers to it and a StyleMap that refers to that
\* StyleMap.
ChainNodes ==
  <<StyleNode("Style", Some(<<"a">>),
              Some([color |-> Some(KmlRed), width |-> Some(<<"2">>)]), Undefined, Undefined, <<>>),
    StyleNode("StyleMap", Some(<<"m">>), Undefined, Undefined, Undefined,
              <<Pair(Highlight, <<"#", "b">>), Pair(Normal, <<"#", "a">>)>>),
    StyleNode("StyleMap", Some(<<"n">>), Undefined, Undefined, Undefined,
              <<Pair(Normal, <<"#", "m">>)>>)>>

\* Documents with the three nodes of ChainNodes in every order, and two
\* Placemarks that refer to them.
ChainScenarios ==
  {Scenario("string",
            Text(Some(<<"xmlns">>), TRUE, FALSE, [i \in 1..3 |-> ChainNodes[order[i]]],
                 <<Pm(Some(NameX), Some(u), <<>>, FALSE, <<G("Point", FALSE, <<C("plain", COne)>>)>>),
                   Pm(Some(NameX), Some(v), <<>>, FALSE, <<G("Point", FALSE, <<C("plain", COne)>>)>>)>>),
            NoFaults) :
      order \in {o \in [1..3 -> 1..3] : \A i, j \in 1..3 : i # j => o[i] # o[j]},
      u \in StyleUrls, v \in StyleUrls}

Scenarios ==
  GeoScenarios \cup FaultScenarios \cup StyleScenarios \cup ChainScenarios \cup RootScenarios
  \cup InvalidScenarios

\* --------------------------------------------------------------- parseKml
VARIABLES
  input,                \* the argument kmlString of parseKml: [type, text]
  faults,               \* the exceptions raised inside the guarded regions
  pc,                   \* where parseKml stands
  processedKmlString,   \* optional: the namespace-repaired text
  xmlDoc,               \* optional: the tree the XML parser built
  styles,               \* the Style Table
  elements,             \* the elements parsePlacemarks returned
  result,               \* optional: the KmlData the promise resolves with
  error,                \* optional: the message of the Error it rejects with
  called,               \* the functions called so far, in order
  salvageArg            \* optional: the text fallbackParse was called with

\* parseKmz (src/lib/kmz-parser.ts)
VARIABLES
  file,                 \* the argument of parseKmz: [present, name, zip]
  kpc,                  \* where parseKmz stands
  zipContents,          \* optional: the entries of the loaded archive, in stored order
  kmlFile,              \* optional: the entry chosen as the KML document
  kmlContent,           \* optional: the text extracted from kmlFile
  imageFiles,           \* the names of the image entries, in stored order
  imageIndex,           \* how many of imageFiles the loop has visited
  resources,            \* the names resources has a URL for
  kmzResult,            \* optional: the KmlData parseKmz resolves with
  kmzError              \* optional: the message of the Error it rejects with

\* The viewer page (src/app/viewer/page.tsx)
VARIABLES
  uploads,              \* the calls of handleFileUpload so far: [file, fileType, at, parser]
  kmlData,              \* optional: the state kmlData
  isLoading,            \* the state isLoading
  pageError,            \* optional: the state error
  selectedElement,      \* optional: the state selectedElement
  fileName,             \* optional: the state fileName
  fileSize,             \* optional: the state fileSize
  fileType,             \* optional: the state fileType
  mapLoaded,            \* the state mapLoaded of KmlViewer
  layers,               \* mapRef.current.layers: element id -> layer
  mapLayers,            \* the layers on the map
  renderPending         \* the map render effect is scheduled and has not run yet

\* A call of one of the pure functions of lib/kml-parser.ts
VARIABLES
  fnArg,                \* the function called and its argument: [fn, arg]
  fnOuts                \* what the calls made so far returned, in order

kmlVars ==
  <<input, faults, pc, processedKmlString, xmlDoc, styles, elements, result, error, called,
    salvageArg>>

kmzVars ==
  <<file, kpc, zipContents, kmlFile, kmlContent, imageFiles, imageIndex, resources, kmzResult,
    kmzError>>

pageVars ==
  <<uploads, kmlData, isLoading, pageError, selectedElement, fileName, fileSize, fileType,
    mapLoaded, layers, mapLayers, renderPending>>

fnVars == <<fnArg, fnOuts>>

vars == <<kmlVars, kmzVars, pageVars, fnVars>>

\* No call of parseKml is under way.
KmlIdle ==
  /\ input = [type |-> "undefined", text |-> EmptyText]
  /\ faults = NoFaults
  /\ pc = "idle"
  /\ processedKmlString = Undefined
  /\ xmlDoc = Undefined
  /\ styles = EmptyTable
  /\ elements = <<>>
  /\ result = Undefined
  /\ error = Undefined
  /\ called = <<>>
  /\ salvageArg = Undefined

\* No call of parseKmz is under way.
KmzIdle ==
  /\ file = [present |-> FALSE, name |-> <<>>, zip |-> Undefined]
  /\ kpc = "idle"
  /\ zipContents = Undefined
  /\ kmlFile = Undefined
  /\ kmlContent = Undefined
  /\ imageFiles = <<>>
  /\ imageIndex = 0
  /\ resources = {}
  /\ kmzResult = Undefined
  /\ kmzError = Undefined

\* The viewer page as first rendered (lines 20-27), no file chosen yet.
PageIdle ==
  /\ uploads = <<>>
  /\ kmlData = Undefined
  /\ isLoading = FALSE
  /\ pageError = Undefined
  /\ selectedElement = Undefined
  /\ fileName = Undefined
  /\ fileSize = Undefined
  /\ fileType = Undefined
  /\ mapLoaded = FALSE
  /\ layers = <<>>
  /\ mapLayers = {}
  /\ renderPending = FALSE

\* No pure function is being exercised on its own.
FnIdle ==
  /\ fnArg = [fn |-> "none", arg |-> Undefined]
  /\ fnOuts = <<>>

Init ==
  /\ \E sc \in Scenarios : input = sc.input /\ faults = sc.faults
  /\ KmzIdle /\ PageIdle /\ FnIdle
  /\ pc = "start"
  /\ processedKmlString = Undefined
  /\ xmlDoc = Undefined
  /\ styles = EmptyTable
  /\ elements = <<>>
  /\ result = Undefined
  /\ error = Undefined
  /\ called = <<>>
  /\ salvageArg = Undefined

\* Lines 15-22: the input check, then preprocessKml.
Validate ==
  /\ UNCHANGED <<kmzVars, pageVars, fnVars>>
  /\ pc = "start"
  /\ IF InvalidInput(input)
     THEN /\ error' = Some("Invalid KML content: Empty or not a string")
          /\ pc' = "rejected"
          /\ UNCHANGED <<processedKmlString, called>>
     ELSE /\ processedKmlString' = Some(preprocessKml(input.text))
          /\ called' = Append(called, "preprocessKml")
          /\ pc' = "parse"
          /\ UNCHANGED error
  /\ UNCHANGED <<input, faults, xmlDoc, styles, elements, result, salvageArg>>

\* Lines 24-36: the XML parse and the check for a parser error.
ParseXml ==
  /\ UNCHANGED <<kmzVars, pageVars, fnVars>>
  /\ pc = "parse"
  /\ called' = Append(called, "parseFromString")
  /\ IF ParserError(Get(processedKmlString))
     THEN pc' = "fallback" /\ UNCHANGED xmlDoc
     ELSE pc' = "styles" /\ xmlDoc' = processedKmlString
  /\ UNCHANGED <<input, faults, processedKmlString, styles, elements, result, error, salvageArg>>

\* Line 35: return fallbackParse(kmlString).
Fallback ==
  /\ UNCHANGED <<kmzVars, pageVars, fnVars>>
  /\ pc = "fallback"
  /\ LET arg == SalvageInput(input.text, Get(processedKmlString))
         got == fallbackParse(arg, faults.salvage)
     IN /\ salvageArg' = Some(arg)
        /\ called' = Append(called, "fallbackParse")
        /\ IF got.threw
           THEN pc' = "rejected" /\ error' = Some("fallbackParse") /\ UNCHANGED result
           ELSE pc' = "resolved" /\ result' = Some(got.value) /\ UNCHANGED error
  /\ UNCHANGED <<input, faults, processedKmlString, xmlDoc, styles, elements>>

\* Line 50: const styles = parseStyles(xmlDoc).
ParseStyles ==
  /\ UNCHANGED <<kmzVars, pageVars, fnVars>>
  /\ pc = "styles"
  /\ LET got == parseStyles(Get(xmlDoc).styleNodes, faults.styles)
     IN /\ called' = Append(called, "parseStyles")
        /\ IF got.threw
           THEN pc' = "rejected" /\ error' = Some("parseStyles") /\ UNCHANGED styles
           ELSE pc' = "placemarks" /\ styles' = got.value /\ UNCHANGED error
  /\ UNCHANGED <<input, faults, processedKmlString, xmlDoc, elements, result, salvageArg>>

\* Variant of AfterPlacemarks that sends an empty list to the Salvage Parser.
AfterPlacemarksToSalvage(els) == IF els = <<>> THEN "fallback" ELSE "assemble"

\* Where parseKml goes once parsePlacemarks returned (lines 55-58): an empty
\* list is logged and returned like any other.
AfterPlacemarks(els) == "assemble"

\* Line 53: const elements = parsePlacemarks(xmlDoc, styles).
ParsePlacemarks ==
  /\ UNCHANGED <<kmzVars, pageVars, fnVars>>
  /\ pc = "placemarks"
  /\ LET got == parsePlacemarks(Get(xmlDoc).placemarks, styles, faults.placemarks)
     IN /\ called' = Append(called, "parsePlacemarks")
        /\ IF got.threw
           THEN pc' = "rejected" /\ error' = Some("parsePlacemarks") /\ UNCHANGED elements
           ELSE pc' = AfterPlacemarks(got.value) /\ elements' = got.value /\ UNCHANGED error
  /\ UNCHANGED <<input, faults, processedKmlString, xmlDoc, styles, result, salvageArg>>

\* The name and description parseKml reads from the Document block (lines 45-47).
DocumentField(doc, field) ==
  IF IsDefined(doc.document) THEN OrUndefined(Get(doc.document)[field]) ELSE Undefined

\* What parseKml returns once parsePlacemarks gave elements (lines 55-64).
StructuredResult(doc, els) ==
  KmlData(DocumentField(doc, "name"), DocumentField(doc, "description"), els)

\* Lines 55-64: the warning for an empty list, then the return.
Assemble ==
  /\ UNCHANGED <<kmzVars, pageVars, fnVars>>
  /\ pc = "assemble"
  /\ result' = Some(StructuredResult(Get(xmlDoc), elements))
  /\ pc' = "resolved"
  /\ UNCHANGED <<input, faults, processedKmlString, xmlDoc, styles, elements, error, called,
                 salvageArg>>

Next == Validate \/ ParseXml \/ Fallback \/ ParseStyles \/ ParsePlacemarks \/ Assemble

Spec == Init /\ [][Next]_vars

\* ---------------------------------------------------------------- parseKmz
\* An archive is the sequence of its entries in stored order, each
\*   [name, dir, readable, text, blank]
\* dir: a directory entry; readable: async("string") / async("blob") on the
\* entry succeeds; text: what async("string") gives; blank: that text has
\* nothing but whitespace in it.
MaxEntries == 3

UpperCase ==
  <<"A", "B", "C", "D", "E", "F", "G", "H", "I", "J", "K", "L", "M", "N", "O", "P", "Q", "R",
    "S", "T", "U", "V", "W", "X", "Y", "Z">>

LowerCase ==
  <<"a", "b", "c", "d", "e", "f", "g", "h", "i", "j", "k", "l", "m", "n", "o", "p", "q", "r",
    "s", "t", "u", "v", "w", "x", "y", "z">>

\* String.prototype.toLowerCase
toLowerCase(s) ==
  [i \in 1..Len(s) |->
     IF \E k \in 1..Len(UpperCase) : UpperCase[k] = s[i]
     THEN LowerCase[CHOOSE k \in 1..Len(UpperCase) : UpperCase[k] = s[i]]
     ELSE s[i]]

\* String.prototype.endsWith
endsWith(s, suffix) ==
  Len(s) >= Len(suffix) /\ SubSeq(s, Len(s) - Len(suffix) + 1, Len(s)) = suffix

DotKmz == <<".", "k", "m", "z">>

DotKml == <<".", "k", "m", "l">>

DocKml == <<"d", "o", "c", ".", "k", "m", "l">>

\* The extensions of /\.(png|jpg|jpeg|gif|svg)$/i
ImageExtensions ==
  {<<".", "p", "n", "g">>, <<".", "j", "p", "g">>, <<".", "j", "p", "e", "g">>,
   <<".", "g", "i", "f">>, <<".", "s", "v", "g">>}

\* file.name.toLowerCase().endsWith(".kmz")
IsKmzName(name) == endsWith(toLowerCase(name), DotKmz)

\* The filter of lines 42-44.
IsKmlEntry(e) == endsWith(toLowerCase(e.name), DotKml) /\ ~e.dir

\* The filter of lines 81-83.
IsImageEntry(e) == (\E ext \in ImageExtensions : endsWith(toLowerCase(e.name), ext)) /\ ~e.dir

\* zipContents.file(name): the entry stored under that name, none for a
\* directory entry.
ZipFile(entries, name) ==
  LET found == SelectSeq(entries, LAMBDA e : e.name = name /\ ~e.dir)
  IN IF found = <<>> THEN Undefined ELSE Some(found[1])

\* Variant of FindKmlFile that does not look for doc.kml first.
FindKmlFileFirstOnly(entries) ==
  LET kmlFiles == SelectSeq(entries, IsKmlEntry)
  IN IF kmlFiles = <<>> THEN Undefined ELSE ZipFile(entries, kmlFiles[1].name)

\* Lines 38-53: doc.kml, else the first entry the filter keeps.
FindKmlFile(entries) ==
  LET docKml == ZipFile(entries, DocKml)
      kmlFiles == SelectSeq(entries, IsKmlEntry)
  IN IF IsDefined(docKml) THEN docKml
     ELSE IF kmlFiles = <<>> THEN Undefined
     ELSE ZipFile(entries, kmlFiles[1].name)

\* Variant of IsBlankContent without the trim: only "" counts.
IsEmptyContent(e) == e.text.empty

\* !kmlContent || kmlContent.trim() === ""
IsBlankContent(e) == e.text.empty \/ e.blank

Entry(name, dir, readable, text, blank) ==
  [name |-> name, dir |-> dir, readable |-> readable, text |-> text, blank |-> blank]

\* The text of a KML entry: a well-formed document named after the entry, or
\* one whose markup is not balanced.
EntryText(docName, closed) ==
  [empty |-> FALSE, rootTag |-> Some(<<"xmlns">>), closed |-> closed, usesGx |-> FALSE,
   document |-> Some([name |-> Some(docName), description |-> Undefined]),
   styleNodes |-> <<>>, placemarks |-> <<OnePoint>>]

\* The text of an entry that has only whitespace in it.
BlankText ==
  [empty |-> FALSE, rootTag |-> Undefined, closed |-> TRUE, usesGx |-> FALSE,
   document |-> Undefined, styleNodes |-> <<>>, placemarks |-> <<>>]

Entries ==
  {Entry(DocKml, FALSE, TRUE, EntryText(<<"d">>, TRUE), FALSE),
   Entry(DocKml, FALSE, FALSE, EntryText(<<"d">>, TRUE), FALSE),
   Entry(<<"A", ".", "K", "M", "L">>, FALSE, TRUE, EntryText(<<"A">>, TRUE), FALSE),
   Entry(<<"b", ".", "k", "m", "l">>, FALSE, TRUE, EntryText(<<"b">>, FALSE), FALSE),
   Entry(<<"c", ".", "k", "m", "l">>, FALSE, TRUE, BlankText, TRUE),
   Entry(<<"e", ".", "k", "m", "l">>, FALSE, TRUE, EmptyText, FALSE),
   Entry(<<"k", ".", "k", "m", "l", "/">>, TRUE, FALSE, EmptyText, FALSE),
   Entry(<<"i", ".", "p", "n", "g">>, FALSE, TRUE, EmptyText, FALSE),
   Entry(<<"J", ".", "J", "P", "G">>, FALSE, FALSE, EmptyText, FALSE),
   Entry(<<"r", ".", "t", "x", "t">>, FALSE, TRUE, EmptyText, FALSE)}

\* The archives: up to MaxEntries entries, no name stored twice.
Archives ==
  {a \in SeqsUpTo(Entries, MaxEntries) :
     \A i, j \in 1..Len(a) : i # j => a[i].name # a[j].name}

KmzName == <<"a", ".", "k", "m", "z">>

File(name, zip) == [present |-> TRUE, name |-> name, zip |-> zip]

\* The arguments of parseKmz: no file, a file that is no ZIP archive, files
\* of other names, and archives under a .kmz name.
Files ==
  {[present |-> FALSE, name |-> <<>>, zip |-> Undefined]}
  \cup {File(name, zip) :
          name \in {KmzName, <<"A", ".", "K", "M", "Z">>, <<"a", ".", "k", "m", "l">>,
                    <<"k", "m", "z">>},
          zip \in {Undefined, Some(<<Entry(DocKml, FALSE, TRUE, EntryText(<<"d">>, TRUE), FALSE)>>)}}
  \cup {File(KmzName, Some(a)) : a \in Archives}

KmzInit ==
  /\ file \in Files
  /\ kpc = "start"
  /\ zipContents = Undefined
  /\ kmlFile = Undefined
  /\ kmlContent = Undefined
  /\ imageFiles = <<>>
  /\ imageIndex = 0
  /\ resources = {}
  /\ kmzResult = Undefined
  /\ kmzError = Undefined
  /\ KmlIdle /\ PageIdle /\ FnIdle

\* throw new Error(message), rethrown by the catch of lines 109-112.
KmzReject(message) ==
  /\ kmzError' = Some(message)
  /\ kpc' = "rejected"

\* Lines 13-19: the checks of the argument.
KmzValidate ==
  /\ kpc = "start"
  /\ IF ~file.present THEN KmzReject("No file provided")
     ELSE IF ~IsKmzName(file.name) THEN KmzReject("Not a KMZ file")
     ELSE kpc' = "load" /\ UNCHANGED kmzError
  /\ UNCHANGED <<file, zipContents, kmlFile, kmlContent, imageFiles, imageIndex, resources,
                 kmzResult>>
  /\ UNCHANGED <<kmlVars, pageVars, fnVars>>

\* Lines 24-32: zip.loadAsync(file).
LoadArchive ==
  /\ kpc = "load"
  /\ called' = Append(called, "loadAsync")
  /\ IF ~IsDefined(file.zip)
     THEN KmzReject("Invalid KMZ file: Not a valid ZIP archive") /\ UNCHANGED zipContents
     ELSE zipContents' = file.zip /\ kpc' = "find" /\ UNCHANGED kmzError
  /\ UNCHANGED <<file, kmlFile, kmlContent, imageFiles, imageIndex, resources, kmzResult>>
  /\ UNCHANGED <<input, faults, pc, processedKmlString, xmlDoc, styles, elements, result,
                 error, salvageArg>>
  /\ UNCHANGED <<pageVars, fnVars>>

\* Lines 37-57: the choice of the KML entry.
FindKml ==
  /\ kpc = "find"
  /\ LET found == FindKmlFile(Get(zipContents))
     IN IF ~IsDefined(found)
        THEN KmzReject("No KML file found in the KMZ archive") /\ UNCHANGED kmlFile
        ELSE kmlFile' = found /\ kpc' = "extract" /\ UNCHANGED kmzError
  /\ UNCHANGED <<file, zipContents, kmlContent, imageFiles, imageIndex, resources, kmzResult>>
  /\ UNCHANGED <<kmlVars, pageVars, fnVars>>

\* Lines 61-85: kmlFile.async("string"), the check of the text, and the
\* list of the image entries.
ExtractKml ==
  /\ kpc = "extract"
  /\ called' = Append(called, "kmlFile.async")
  /\ IF ~Get(kmlFile).readable
     THEN /\ KmzReject("Failed to extract KML content from KMZ file")
          /\ UNCHANGED <<kmlContent, imageFiles>>
     ELSE IF IsBlankContent(Get(kmlFile))
     THEN /\ KmzReject("Extracted KML file is empty")
          /\ kmlContent' = Some(Get(kmlFile).text)
          /\ UNCHANGED imageFiles
     ELSE /\ kmlContent' = Some(Get(kmlFile).text)
          /\ imageFiles' = LET kept == SelectSeq(Get(zipContents), IsImageEntry)
                            IN [i \in 1..Len(kept) |-> kept[i].name]
          /\ kpc' = "images"
          /\ UNCHANGED kmzError
  /\ UNCHANGED <<file, zipContents, kmlFile, imageIndex, resources, kmzResult>>
  /\ UNCHANGED <<input, faults, pc, processedKmlString, xmlDoc, styles, elements, result,
                 error, salvageArg>>
  /\ UNCHANGED <<pageVars, fnVars>>

\* Variant of ImageFailure in which a failed image ends the call.
ImageFailureFatal(pcNext) == "rejected"

\* Lines 94-97: the catch inside the loop warns and goes on.
ImageFailure(pcNext) == pcNext

\* Lines 87-98: one turn of the loop over imageFiles.
ExtractImage ==
  /\ kpc = "images"
  /\ imageIndex < Len(imageFiles)
  /\ LET imageFile == imageFiles[imageIndex + 1]
         entry == ZipFile(Get(zipContents), imageFile)
     IN /\ called' = Append(called, "image.async")
        /\ imageIndex' = imageIndex + 1
        /\ IF ~IsDefined(entry)
           THEN UNCHANGED <<resources, kpc, kmzError>>
           ELSE IF Get(entry).readable
           THEN resources' = resources \cup {imageFile} /\ UNCHANGED <<kpc, kmzError>>
           ELSE /\ kpc' = ImageFailure("images")
                /\ kmzError' = IF ImageFailure("images") = "rejected"
                               THEN Some("Failed to extract image") ELSE kmzError
                /\ UNCHANGED resources
  /\ UNCHANGED <<file, zipContents, kmlFile, kmlContent, imageFiles, kmzResult>>
  /\ UNCHANGED <<input, faults, pc, processedKmlString, xmlDoc, styles, elements, result,
                 error, salvageArg>>
  /\ UNCHANGED <<pageVars, fnVars>>

\* Variant of LoopDone that lets the call overtake the loop.
LoopDoneAnyTime(index, names) == TRUE

\* The for...of loop of line 87 is over once every name was visited.
LoopDone(index, names) == index = Len(names)

\* Line 102: parseKml(kmlContent) is called once the loop is over.
CallParseKml ==
  /\ kpc = "images"
  /\ LoopDone(imageIndex, imageFiles)
  /\ pc = "idle"
  /\ input' = [type |-> "string", text |-> Get(kmlContent)]
  /\ pc' = "start"
  /\ called' = Append(called, "parseKml")
  /\ kpc' = "parsing"
  /\ UNCHANGED <<faults, processedKmlString, xmlDoc, styles, elements, result, error, salvageArg>>
  /\ UNCHANGED <<file, zipContents, kmlFile, kmlContent, imageFiles, imageIndex, resources,
                 kmzResult, kmzError>>
  /\ UNCHANGED <<pageVars, fnVars>>

\* Lines 102-111: what parseKml settled with is what parseKmz settles with.
KmzSettle ==
  /\ kpc = "parsing"
  /\ pc \in {"resolved", "rejected"}
  /\ IF pc = "resolved"
     THEN kmzResult' = result /\ kpc' = "resolved" /\ UNCHANGED kmzError
     ELSE kmzError' = error /\ kpc' = "rejected" /\ UNCHANGED kmzResult
  /\ UNCHANGED <<file, zipContents, kmlFile, kmlContent, imageFiles, imageIndex, resources>>
  /\ UNCHANGED <<kmlVars, pageVars, fnVars>>

KmzNext ==
  \/ KmzValidate \/ LoadArchive \/ FindKml \/ ExtractKml \/ ExtractImage \/ CallParseKml
  \/ Validate \/ ParseXml \/ Fallback \/ ParseStyles \/ ParsePlacemarks \/ Assemble
  \/ KmzSettle

SpecKmz == KmzInit /\ [][KmzNext]_vars

\* ---------------------------------------------------------------- properties
Called(f) == \E i \in 1..Len(called) : called[i] = f

ValidInput == input.type = "string" /\ ~input.text.empty

\* parseKml resolved on the structured path (lines 38-64).
ResolvedStructured == pc = "resolved" /\ IsDefined(xmlDoc)

\* parseKml resolved after the XML parser reported an error (lines 30-36).
ResolvedAfterParserError ==
  pc = "resolved" /\ IsDefined(processedKmlString) /\ ~IsDefined(xmlDoc)

\* What the Salvage Parser extracts from the raw input text.
SalvageOfInput == SalvageFold(input.text.placemarks, Len(input.text.placemarks))

C2_NeverRejects ==
  ValidInput =>
    /\ pc # "rejected"
    /\ error = Undefined
    /\ pc = "resolved" => IsDefined(result)

\* A Placemark raised during extraction and parseKml resolved all the same.
C2_Witness ==
  /\ ResolvedStructured
  /\ faults.placemarks # {}
  /\ Len(Get(xmlDoc).placemarks) > 0

\* C3: on a parser error parseKml resolves with exactly what fallbackParse
\* gives for the original text, which is the text it was called with, and
\* runs neither parseStyles nor parsePlacemarks.
C3_ParserErrorSalvagesOriginal ==
  /\ pc = "fallback" => ~Called("parseStyles") /\ ~Called("parsePlacemarks")
  /\ ResolvedAfterParserError =>
       /\ salvageArg = Some(input.text)
       /\ result = Some(KmlData(Undefined, Undefined,
                                IF faults.salvage THEN <<>> ELSE SalvageOfInput))
       /\ ~Called("parseStyles")
       /\ ~Called("parsePlacemarks")
       /\ error = Undefined

\* A parser error on a text the namespace repair changed, salvaged to a
\* Document with elements.
C3_Witness ==
  /\ ResolvedAfterParserError
  /\ Get(processedKmlString) # input.text
  /\ Len(Get(result).elements) > 0

\* C4: an absent, empty or non-string argument makes parseKml reject at once:
\* no namespace repair, no XML parse, no salvage, no Document.
C4_InvalidInputRejects ==
  (input.type # "string" \/ input.text.empty) =>
    /\ pc \in {"start", "rejected"}
    /\ pc = "rejected" => error = Some("Invalid KML content: Empty or not a string")
    /\ processedKmlString = Undefined
    /\ called = <<>>
    /\ salvageArg = Undefined
    /\ result = Undefined

\* The empty string was rejected.
C4_Witness == pc = "rejected" /\ input.type = "string" /\ input.text.empty

\* Whether the nesting of an Element's coordinates is that of its kind.
ShapeMatchesKind(e) ==
  LET isTriple(t) == Len(t) = 3
      isTriples(l) == \A i \in 1..Len(l) : isTriple(l[i])
  IN CASE e.type = "Point" -> e.coordinates.depth = 1 /\ isTriple(e.coordinates.v)
       [] e.type = "LineString" ->
            /\ e.coordinates.depth = 2
            /\ Len(e.coordinates.v) > 0
            /\ isTriples(e.coordinates.v)
       [] e.type = "Polygon" ->
            /\ e.coordinates.depth = 3
            /\ Len(e.coordinates.v) > 0
            /\ \A r \in 1..Len(e.coordinates.v) : isTriples(e.coordinates.v[r])

\* C5 as stated: every Element of every returned Document, structured or
\* salvaged, has coordinates nested as its kind demands: a Point one triple,
\* a LineString a non-empty sequence of triples, a Polygon a non-empty
\* sequence of rings of triples.
C5_CoordinatesMatchKind ==
  IsDefined(result) =>
    \A i \in 1..Len(Get(result).elements) : ShapeMatchesKind(Get(result).elements[i])

\* The Placemark blocks of the parsed tree.
Placemarks == Get(xmlDoc).placemarks

\* The geometry of a Placemark that wins the dispatch Point > LineString >
\* Polygon: the first descendant, in document order, of the first of these
\* kinds the Placemark has any of.
FirstWithTag(geoms, tag) ==
  LET at == {i \in 1..Len(geoms) : geoms[i].tag = tag}
  IN IF at = {} THEN Undefined ELSE Some(geoms[CHOOSE i \in at : \A j \in at : i <= j])

Winner(p) ==
  IF IsDefined(FirstWithTag(p.geoms, "Point")) THEN FirstWithTag(p.geoms, "Point")
  ELSE IF IsDefined(FirstWithTag(p.geoms, "LineString"))
       THEN FirstWithTag(p.geoms, "LineString")
       ELSE FirstWithTag(p.geoms, "Polygon")

\* The triples of the first outer boundary of a Polygon; none when it has no
\* outer boundary.
OuterTriples(polygon) ==
  LET at == {i \in 1..Len(polygon.coords) : polygon.coords[i].role = "outer"}
  IN IF at = {} THEN <<>>
     ELSE parseCoordinates(Some(polygon.coords[CHOOSE i \in at : \A j \in at : i <= j].text))

\* C6 as stated: ring 0 of every Polygon the structured path emits is the
\* outer boundary of a Polygon placemark of the document (a Polygon whose
\* outer boundary is missing or has no coordinates emits nothing).
C6_RingZeroIsOuter ==
  ResolvedStructured =>
    \A k \in 1..Len(elements) :
      elements[k].type = "Polygon" =>
        \E i \in 1..Len(Placemarks) :
          /\ IsDefined(Winner(Placemarks[i]))
          /\ Get(Winner(Placemarks[i])).tag = "Polygon"
          /\ OuterTriples(Get(Winner(Placemarks[i]))) # <<>>
          /\ OuterTriples(Get(Winner(Placemarks[i]))) = elements[k].coordinates.v[1]

EndsWith(s, suffix) ==
  Len(s) >= Len(suffix) /\ SubSeq(s, Len(s) - Len(suffix) + 1, Len(s)) = suffix

\* A named Placemark whose only geometry is a MultiGeometry with children.
NamedMultiOnly(p) ==
  /\ Truthy(p.name)
  /\ p.multi
  /\ p.geoms # <<>>
  /\ \A i \in 1..Len(p.geoms) : p.geoms[i].inMulti /\ p.geoms[i].coords # <<>>

\* C7 as stated: a document of named Placemarks whose only geometry is a
\* MultiGeometry yields one Element per Placemark, of the kind of the first
\* child in the order Point > LineString > Polygon, named with the
\* Placemark's name followed by " (Multi)".
C7_MultiGeometryNameSuffixed ==
  (/\ ResolvedStructured
   /\ faults.placemarks = {}
   /\ \A i \in 1..Len(Placemarks) : NamedMultiOnly(Placemarks[i]))
    => /\ Len(elements) = Len(Placemarks)
       /\ \A k \in 1..Len(elements) :
            /\ elements[k].type = Get(Winner(Placemarks[k])).tag
            /\ IsDefined(elements[k].name)
            /\ Get(elements[k].name) = Get(Placemarks[k].name) \o MultiSuffix

\* Whether Element e is what the winning geometry of Placemark p gives: its
\* kind, and coordinates read from that geometry alone.
FromWinner(e, p) ==
  /\ IsDefined(Winner(p))
  /\ LET w == Get(Winner(p))
     IN /\ e.type = w.tag
        /\ w.coords # <<>>
        /\ CASE w.tag = "Point" ->
                  /\ e.coordinates.depth = 1
                  /\ parseCoordinates(Some(w.coords[1].text)) # <<>>
                  /\ e.coordinates.v = parseCoordinates(Some(w.coords[1].text))[1]
             [] w.tag = "LineString" ->
                  /\ e.coordinates.depth = 2
                  /\ e.coordinates.v = parseCoordinates(Some(w.coords[1].text))
             [] w.tag = "Polygon" ->
                  /\ e.coordinates.depth = 3
                  /\ \A r \in 1..Len(e.coordinates.v) :
                       \E c \in 1..Len(w.coords) :
                         e.coordinates.v[r] = parseCoordinates(Some(w.coords[c].text))

\* C8: the Elements of the structured path map, in order, to distinct
\* Placemarks that raised nothing, each Element being of the kind of the
\* geometry that wins Point > LineString > Polygon in its Placemark and read
\* from that geometry: at most one Element per Placemark, in document order,
\* and never from a geometry of lower priority.
C8_OnePerPlacemarkByPriority ==
  (pc \in {"assemble", "resolved"} /\ IsDefined(xmlDoc)) =>
    \E f \in [1..Len(elements) -> 1..Len(Placemarks)] :
      /\ \A k \in 1..(Len(elements) - 1) : f[k] < f[k + 1]
      /\ \A k \in 1..Len(elements) :
           f[k] \notin faults.placemarks /\ FromWinner(elements[k], Placemarks[f[k]])

\* Two Placemarks with two geometries each, the first with a Point without
\* coordinates before a LineString, the second with a LineString before a
\* Point: only the second gives an Element, its Point.
C8_Witness ==
  /\ ResolvedStructured
  /\ faults.placemarks = {}
  /\ Len(Placemarks) = 2
  /\ Len(Placemarks[1].geoms) = 2 /\ Placemarks[1].geoms[1].tag = "Point"
  /\ Len(Placemarks[2].geoms) = 2 /\ Placemarks[2].geoms[1].tag = "LineString"
  /\ Len(elements) = 1
  /\ elements[1].type = "Point"

WithoutIds(els) == [k \in 1..Len(els) |-> [els[k] EXCEPT !.id = 0]]

\* What Placemark i gives when it is the only Placemark of the document.
Alone(i) == parsePlacemarks(<<Placemarks[i]>>, styles, {}).value

RECURSIVE ContributionsUpTo(_)
ContributionsUpTo(n) ==
  IF n = 0 THEN <<>>
  ELSE ContributionsUpTo(n - 1) \o (IF n \in faults.placemarks THEN <<>> ELSE Alone(n))

\* C9: whichever Placemarks raise an exception, parsePlacemarks returns and
\* parseKml does not reject; the Elements are, in order and up to their ids,
\* those every Placemark that did not raise gives alone, and nothing for one
\* that raised.
C9_RaisingPlacemarkIsolated ==
  /\ (IsDefined(xmlDoc) /\ Called("parsePlacemarks")) =>
       /\ pc \in {"assemble", "resolved"}
       /\ error = Undefined
       /\ WithoutIds(elements) = WithoutIds(ContributionsUpTo(Len(Placemarks)))
  /\ ResolvedStructured => Get(result).elements = elements

\* The first of two Placemarks raised where it would have given an Element,
\* and the second still gave its own.
C9_Witness ==
  /\ ResolvedStructured
  /\ Len(Placemarks) = 2
  /\ faults.placemarks = {1}
  /\ Len(Alone(1)) = 1
  /\ Len(elements) = 1

\* The style nodes of the parsed tree.
StyleNodesOf == Get(xmlDoc).styleNodes

\* The id a StyleMap's "normal" Pair refers to: the text after "#".
NormalReference(node) ==
  LET at == {i \in 1..Len(node.pairs) : node.pairs[i].key = Some(Normal)}
      first == node.pairs[CHOOSE i \in at : \A j \in at : i <= j]
  IN IF at = {} \/ ~Truthy(first.styleUrl) \/ Head(Get(first.styleUrl)) # "#"
     THEN Undefined
     ELSE Some(Tail(Get(first.styleUrl)))

\* An id that only StyleMaps with a "normal" reference outside the table carry.
OnlyUnresolved(id) ==
  /\ \E i \in 1..Len(StyleNodesOf) : StyleNodesOf[i].id = Some(id)
  /\ \A i \in 1..Len(StyleNodesOf) :
       StyleNodesOf[i].id = Some(id) =>
         /\ StyleNodesOf[i].tag = "StyleMap"
         /\ IsDefined(NormalReference(StyleNodesOf[i]))
         /\ Get(NormalReference(StyleNodesOf[i])) \notin DOMAIN styles

\* The id a Placemark's styleUrl refers to.
StyleReference(p) ==
  IF Truthy(p.styleUrl) /\ Head(Get(p.styleUrl)) = "#" THEN Some(Tail(Get(p.styleUrl)))
  ELSE Undefined

\* Whether Placemark p is a single Point with coordinates.
PlainPoint(p) ==
  /\ Len(p.geoms) = 1
  /\ p.geoms[1].tag = "Point"
  /\ p.geoms[1].coords # <<>>
  /\ parseCoordinates(Some(p.geoms[1].coords[1].text)) # <<>>

\* C10: an id carried only by StyleMaps whose "normal" Pair refers to an id
\* outside the Style Table gets no entry, parseKml does not reject, and in a
\* document of Point Placemarks every Placemark is emitted, those whose
\* styleUrl refers to an id outside the table with no style.
C10_UnresolvedStyleIsAbsent ==
  (IsDefined(xmlDoc) /\ Called("parseStyles")) =>
    /\ pc # "rejected"
    /\ \A id \in {<<"a">>, <<"b">>, <<"m">>, <<"n">>, <<"z">>} :
         OnlyUnresolved(id) => id \notin DOMAIN styles
    /\ (/\ pc = "resolved"
        /\ faults.placemarks = {}
        /\ \A i \in 1..Len(Placemarks) : PlainPoint(Placemarks[i]))
         => /\ Len(elements) = Len(Placemarks)
            /\ \A k \in 1..Len(elements) :
                 (/\ IsDefined(StyleReference(Placemarks[k]))
                  /\ Get(StyleReference(Placemarks[k])) \notin DOMAIN styles)
                   => elements[k].style = Undefined

\* A StyleMap m whose "normal" Pair refers to an undefined style, and a
\* Placemark with styleUrl #m emitted without style.
C10_Witness ==
  /\ ResolvedStructured
  /\ faults = NoFaults
  /\ OnlyUnresolved(<<"m">>)
  /\ Len(Placemarks) = 1
  /\ Placemarks[1].styleUrl = Some(<<"#", "m">>)
  /\ Len(elements) = 1
  /\ elements[1].style = Undefined

\* ------------------------------------------------- properties of parseKmz
\* The positions of the archive's entries that qualify as the KML document
\* when there is no doc.kml.
KmlPositions(entries) ==
  {i \in 1..Len(entries) : endsWith(toLowerCase(entries[i].name), DotKml) /\ ~entries[i].dir}

\* The positions of the archive's entries named exactly doc.kml.
DocKmlPositions(entries) == {i \in 1..Len(entries) : entries[i].name = DocKml}

Least(S) == CHOOSE i \in S : \A j \in S : i <= j

\* parseKmz has made its choice of the KML entry.
Chosen == kpc \notin {"idle", "start", "load", "find"} /\ IsDefined(zipContents)

\* C11: parseKmz takes the entry named exactly doc.kml if the archive has one;
\* otherwise the first entry in stored order whose name ends, whatever the
\* case, in .kml and that is no directory; and if there is none it fails with
\* the 'No KML file found' error and returns no Document.
C11_DocKmlThenFirstKml ==
  Chosen =>
    LET entries == Get(zipContents)
    IN IF DocKmlPositions(entries) # {}
       THEN kmlFile = Some(entries[Least(DocKmlPositions(entries))])
       ELSE IF KmlPositions(entries) # {}
       THEN kmlFile = Some(entries[Least(KmlPositions(entries))])
       ELSE /\ kmlFile = Undefined
            /\ kpc = "rejected"
            /\ kmzError = Some("No KML file found in the KMZ archive")
            /\ kmzResult = Undefined

\* doc.kml was chosen although another .kml entry is stored before it, and
\* the call returned the Document of doc.kml.
C11_Witness ==
  /\ kpc = "resolved"
  /\ LET entries == Get(zipContents)
     IN /\ DocKmlPositions(entries) # {}
        /\ Least(KmlPositions(entries)) < Least(DocKmlPositions(entries))
        /\ Get(kmlFile).name = DocKml
  /\ Get(kmzResult).name = Some(<<"d">>)

\* The position in called of the first call of f, 0 if there is none.
FirstCall(f) ==
  IF Called(f) THEN Least({i \in 1..Len(called) : called[i] = f}) ELSE 0

CallsOf(f) == Cardinality({i \in 1..Len(called) : called[i] = f})

\* The functions parseKml calls.
KmlSteps == {"preprocessKml", "parseFromString", "fallbackParse", "parseStyles", "parsePlacemarks"}

\* The names of the archive's image entries.
ImageNames(entries) ==
  {entries[i].name : i \in {j \in 1..Len(entries) :
      /\ \E ext \in ImageExtensions : endsWith(toLowerCase(entries[j].name), ext)
      /\ ~entries[j].dir}}

\* The file is no ZIP archive, or the archive has no entry to take as the
\* KML document.
ContainerError ==
  \/ ~IsDefined(file.zip)
  \/ DocKmlPositions(Get(file.zip)) = {} /\ KmlPositions(Get(file.zip)) = {}

\* C12: the steps of one parseKmz call come in order: when parseKml is called
\* the archive was loaded, the KML entry was extracted as text and every
\* image entry was visited, and nothing of parseKml runs before that call;
\* for a file that is no ZIP archive or has no KML entry, parseKml and the
\* Salvage Parser are never called and the call does not resolve.
C12_UnpackBeforeParse ==
  /\ Called("parseKml") =>
       /\ 0 < FirstCall("loadAsync")
       /\ FirstCall("loadAsync") < FirstCall("kmlFile.async")
       /\ FirstCall("kmlFile.async") < FirstCall("parseKml")
       /\ IsDefined(zipContents) /\ IsDefined(kmlContent)
       /\ Cardinality(ImageNames(Get(zipContents))) = CallsOf("image.async")
       /\ \A i \in 1..Len(called) :
            called[i] = "image.async" => i < FirstCall("parseKml")
       /\ CallsOf("parseKml") = 1
  /\ \A i \in 1..Len(called) :
       called[i] \in KmlSteps => Called("parseKml") /\ FirstCall("parseKml") < i
  /\ ContainerError =>
       /\ ~Called("parseKml") /\ ~Called("fallbackParse")
       /\ pc = "idle"
       /\ kpc \in {"start", "load", "find", "rejected"}
       /\ kmzResult = Undefined

\* A call that loaded the archive, visited both of its image entries, then
\* called parseKml and resolved.
C12_Witness ==
  /\ kpc = "resolved"
  /\ CallsOf("image.async") = 2
  /\ called[1] = "loadAsync"
  /\ Called("parseStyles")

\* The names of the image entries whose extraction succeeds.
ReadableImages(entries) ==
  {n \in ImageNames(entries) : \E i \in 1..Len(entries) : entries[i].name = n /\ entries[i].readable}

\* An image entry of the archive cannot be extracted.
SomeImageFails ==
  IsDefined(zipContents) /\ ReadableImages(Get(zipContents)) # ImageNames(Get(zipContents))

\* C13: when the extraction of an image entry fails, the call goes on: once
\* the loop is over the resource map holds exactly the images that could be
\* extracted, and parseKmz resolves with the Document parseKml made of the
\* text of the KML entry; it rejects for no other reason than parseKml does.
C13_ImageFailureNotFatal ==
  (SomeImageFails /\ IsDefined(kmlContent) /\ ~IsBlankContent(Get(kmlFile))) =>
    /\ kpc \in {"images", "parsing", "resolved", "rejected"}
    /\ kpc \in {"parsing", "resolved", "rejected"} =>
         /\ resources = ReadableImages(Get(zipContents))
         /\ input = [type |-> "string", text |-> Get(kmlFile).text]
    /\ kpc = "resolved" => pc = "resolved" /\ kmzResult = result /\ IsDefined(result)
    /\ kpc = "rejected" => pc = "rejected" /\ kmzError = error

\* The first image entry could not be extracted, a later one could and is in
\* the resource map, and the call returned the Document of the KML entry.
C13_Witness ==
  /\ kpc = "resolved"
  /\ Len(imageFiles) = 2
  /\ imageFiles[1] \notin resources
  /\ imageFiles[2] \in resources
  /\ Get(kmzResult).name = Some(<<"d">>)
  /\ Len(Get(kmzResult).elements) = 1

\* ------------------------------------------------------------ viewer page
\* A file given to the upload handler is
\*   [name, size, text, readable, document]
\* text: what FileReader.readAsText delivers; readable: the read succeeds
\* (onload) or not (onerror); document: the KmlData the parser entry point
\* resolves with for this file, absent when it rejects.
MaxUploads == 2

PageFile(name, size, readable, document) ==
  [name |-> name, size |-> size, text |-> <<"<">> \o name, readable |-> readable,
   document |-> document]

\* An Element as the parsers push it; its id is given when it is loaded.
PageElement(type, depth, v) ==
  [id |-> <<>>, type |-> type, name |-> Undefined, description |-> Undefined,
   coordinates |-> [depth |-> depth, v |-> v], style |-> Undefined,
   extendedData |-> Undefined, metadata |-> Undefined]

\* The Elements of the files: a Point and a LineString of one point, a
\* LineString of two points, a Polygon of one ring, and none.
ElementsOf(name) ==
  IF name[1] = "a"
  THEN <<PageElement("Point", 1, <<1, 2, 0>>), PageElement("LineString", 2, <<<<1, 2, 0>>>>)>>
  ELSE IF name[1] = "b"
  THEN <<PageElement("LineString", 2, <<<<1, 2, 0>>, <<2, 1, 0>>>>)>>
  ELSE IF name[1] = "c"
  THEN <<PageElement("Polygon", 3, <<<<<<0, 0, 0>>, <<1, 0, 0>>, <<1, 1, 0>>>>>>)>>
  ELSE <<>>

\* The Document the parser makes of the file called name.
DocumentOf(name) == KmlData(Some(name), Undefined, ElementsOf(name))

\* The Document as the parser call of upload u returns it: uuidv4() gave
\* every Element an id no other Element has.
Loaded(u, document) ==
  [document EXCEPT !.elements =
     [i \in 1..Len(document.elements) |-> [document.elements[i] EXCEPT !.id = <<u, i>>]]]

PageFileNames ==
  {<<"a", ".", "k", "m", "l">>, <<"b", ".", "K", "M", "Z">>, <<"c", ".", "k", "m", "z">>,
   <<"k", "m", "z">>}

PageFiles ==
  {PageFile(name, Len(name), TRUE, Some(DocumentOf(name))) : name \in PageFileNames}
  \cup {PageFile(<<"a", ".", "k", "m", "l">>, 1, FALSE, Undefined),
        PageFile(<<"d", ".", "k", "m", "l">>, 2, TRUE, Undefined),
        PageFile(<<"e", ".", "k", "m", "z">>, 3, TRUE, Undefined)}

PageInit == PageIdle /\ KmlIdle /\ KmzIdle /\ FnIdle

\* Variant of FileTypeOf that compares the name as typed.
FileTypeOfCaseSensitive(name) == IF endsWith(name, DotKmz) THEN "kmz" ELSE "kml"

\* Line 52: file.name.toLowerCase().endsWith(".kmz") ? "kmz" : "kml"
FileTypeOf(name) == IF IsKmzName(name) THEN "kmz" ELSE "kml"

Upload(f, tag, at, parser) == [file |-> f, fileType |-> tag, at |-> at, parser |-> parser]

\* A call of a parser entry point: parseKmz(file) or parseKml(kmlString).
ParserCall(fn, arg) == Some([fn |-> fn, arg |-> arg])

\* Lines 44-57 and 68-96 of handleFileUpload, up to its first await: the
\* state is set for the new file; a .kmz name waits for the import of the
\* KMZ parser, any other name starts the FileReader and runs the finally.
\* (A change event without a file returns at line 46 and changes nothing.)
HandleFileUpload ==
  /\ Len(uploads) < MaxUploads
  /\ \E f \in PageFiles :
       LET isKmz == IsKmzName(f.name)
       IN /\ pageError' = Undefined
          /\ fileName' = Some(f.name)
          /\ fileSize' = Some(f.size)
          /\ fileType' = Some(FileTypeOf(f.name))
          /\ isLoading' = IF isKmz THEN TRUE ELSE FALSE
          /\ uploads' = Append(uploads,
                               Upload(f, FileTypeOf(f.name),
                                      IF isKmz THEN "import" ELSE "reading", Undefined))
  /\ renderPending' = TRUE
  /\ UNCHANGED <<kmlData, selectedElement, mapLoaded, layers, mapLayers>>
  /\ UNCHANGED <<kmlVars, kmzVars, fnVars>>

\* Lines 60-61: the import resolved, parseKmz(file) is called.
ImportResolved ==
  /\ \E u \in 1..Len(uploads) :
       /\ uploads[u].at = "import"
       /\ uploads' = [uploads EXCEPT ![u].at = "parsing",
                                     ![u].parser = ParserCall("parseKmz", uploads[u].file)]
  /\ UNCHANGED <<kmlData, isLoading, pageError, selectedElement, fileName, fileSize, fileType>>
  /\ UNCHANGED <<mapLoaded, layers, mapLayers, renderPending>>
  /\ UNCHANGED <<kmlVars, kmzVars, fnVars>>

\* Lines 61-67 and 94-96: parseKmz settled; the finally of the handler runs.
KmzSettled ==
  /\ \E u \in 1..Len(uploads) :
       /\ uploads[u].at = "parsing"
       /\ Get(uploads[u].parser).fn = "parseKmz"
       /\ IF IsDefined(uploads[u].file.document)
          THEN /\ kmlData' = Some(Loaded(u, Get(uploads[u].file.document)))
               /\ selectedElement' = Undefined
               /\ UNCHANGED pageError
          ELSE /\ pageError' = Some("KMZ parsing error")
               /\ UNCHANGED <<kmlData, selectedElement>>
       /\ isLoading' = FALSE
       /\ uploads' = [uploads EXCEPT ![u].at = "done"]
  /\ renderPending' = TRUE
  /\ UNCHANGED <<fileName, fileSize, fileType, mapLoaded, layers, mapLayers>>
  /\ UNCHANGED <<kmlVars, kmzVars, fnVars>>

\* Lines 72-75: reader.onload, parseKml(kmlString) is called with the text read.
ReaderLoad ==
  /\ \E u \in 1..Len(uploads) :
       /\ uploads[u].at = "reading"
       /\ uploads[u].file.readable
       /\ uploads' = [uploads EXCEPT ![u].at = "parsing",
                                     ![u].parser = ParserCall("parseKml", uploads[u].file.text)]
  /\ UNCHANGED <<kmlData, isLoading, pageError, selectedElement, fileName, fileSize, fileType>>
  /\ UNCHANGED <<mapLoaded, layers, mapLayers, renderPending>>
  /\ UNCHANGED <<kmlVars, kmzVars, fnVars>>

\* Lines 75-81: parseKml settled inside reader.onload.
KmlSettled ==
  /\ \E u \in 1..Len(uploads) :
       /\ uploads[u].at = "parsing"
       /\ Get(uploads[u].parser).fn = "parseKml"
       /\ IF IsDefined(uploads[u].file.document)
          THEN /\ kmlData' = Some(Loaded(u, Get(uploads[u].file.document)))
               /\ selectedElement' = Undefined
               /\ UNCHANGED pageError
          ELSE /\ pageError' = Some("KML parsing error")
               /\ UNCHANGED <<kmlData, selectedElement>>
       /\ uploads' = [uploads EXCEPT ![u].at = "done"]
  /\ renderPending' = TRUE
  /\ UNCHANGED <<isLoading, fileName, fileSize, fileType, mapLoaded, layers, mapLayers>>
  /\ UNCHANGED <<kmlVars, kmzVars, fnVars>>

\* Lines 84-87: reader.onerror.
ReaderError ==
  /\ \E u \in 1..Len(uploads) :
       /\ uploads[u].at = "reading"
       /\ ~uploads[u].file.readable
       /\ pageError' = Some("Failed to read the file.")
       /\ uploads' = [uploads EXCEPT ![u].at = "done"]
  /\ renderPending' = TRUE
  /\ UNCHANGED <<kmlData, isLoading, selectedElement, fileName, fileSize, fileType>>
  /\ UNCHANGED <<mapLoaded, layers, mapLayers>>
  /\ UNCHANGED <<kmlVars, kmzVars, fnVars>>

\* handleElementSelect(element) (lines 99-105) called by a row of the
\* element list, which shows kmlData.elements (lines 203-209).
SelectFromList ==
  /\ IsDefined(kmlData)
  /\ \E i \in 1..Len(Get(kmlData).elements) :
       selectedElement' = Some(Get(kmlData).elements[i])
  /\ renderPending' = TRUE
  /\ UNCHANGED <<uploads, kmlData, isLoading, pageError, fileName, fileSize, fileType>>
  /\ UNCHANGED <<mapLoaded, layers, mapLayers>>
  /\ UNCHANGED <<kmlVars, kmzVars, fnVars>>

\* KmlViewer, lines 286-343: the map library was imported, the map made
\* with an empty layer registry, and mapLoaded set.
InitializeMap ==
  /\ ~mapLoaded
  /\ mapLoaded' = TRUE
  /\ layers' = <<>>
  /\ mapLayers' = {}
  /\ renderPending' = TRUE
  /\ UNCHANGED <<uploads, kmlData, isLoading, pageError, selectedElement, fileName, fileSize,
                 fileType>>
  /\ UNCHANGED <<kmlVars, kmzVars, fnVars>>

\* Variant of ClearedLayers that leaves the layers on the map.
KeptLayers(onMap, registry) == onMap

\* Lines 466-469: every layer of the registry is taken off the map.
ClearedLayers(onMap, registry) == onMap \ {registry[id] : id \in DOMAIN registry}

\* Lines 485-541: the layer made for an Element, none when the switch makes
\* none.  A layer is known by the Element its click handlers select.
LayerFor(element) ==
  IF element.type = "Point"
  THEN IF Len(element.coordinates.v) >= 2 THEN Some([element |-> element]) ELSE Undefined
  ELSE IF element.type = "LineString"
  THEN IF Len(element.coordinates.v) >= 2 THEN Some([element |-> element]) ELSE Undefined
  ELSE IF element.type = "Polygon"
  THEN IF Len(element.coordinates.v) > 0 THEN Some([element |-> element]) ELSE Undefined
  ELSE Undefined

\* Lines 484-630: kmlData.elements.forEach over the first n Elements, from
\* the map and the empty registry the clearing left.
RECURSIVE RenderFold(_, _, _)
RenderFold(shown, onMap, n) ==
  IF n = 0 THEN [onMap |-> onMap, registry |-> <<>>]
  ELSE LET before == RenderFold(shown, onMap, n - 1)
           layer == LayerFor(shown[n])
           id == shown[n].id
       IN IF IsDefined(layer)
          THEN [onMap |-> before.onMap \cup {Get(layer)},
                registry |-> [k \in DOMAIN before.registry \cup {id} |->
                                IF k = id THEN Get(layer) ELSE before.registry[k]]]
          ELSE before

\* Lines 459-648: the map render effect, run after a render of the page.
RenderEffect ==
  /\ renderPending
  /\ renderPending' = FALSE
  /\ IF ~mapLoaded
     THEN UNCHANGED <<layers, mapLayers>>
     ELSE LET cleared == ClearedLayers(mapLayers, layers)
          IN IF ~IsDefined(kmlData) \/ Len(Get(kmlData).elements) = 0
             THEN layers' = <<>> /\ mapLayers' = cleared
             ELSE LET drawn == RenderFold(Get(kmlData).elements, cleared,
                                          Len(Get(kmlData).elements))
                  IN layers' = drawn.registry /\ mapLayers' = drawn.onMap
  /\ UNCHANGED <<uploads, kmlData, isLoading, pageError, selectedElement, fileName, fileSize,
                 fileType, mapLoaded>>
  /\ UNCHANGED <<kmlVars, kmzVars, fnVars>>

\* Lines 600-604 and 617-619: a click on a layer of the map, or on the
\* details button of its popup, calls onElementSelect(element).
SelectFromLayer ==
  /\ \E layer \in mapLayers : selectedElement' = Some(layer.element)
  /\ renderPending' = TRUE
  /\ UNCHANGED <<uploads, kmlData, isLoading, pageError, fileName, fileSize, fileType>>
  /\ UNCHANGED <<mapLoaded, layers, mapLayers>>
  /\ UNCHANGED <<kmlVars, kmzVars, fnVars>>

PageNext ==
  \/ HandleFileUpload \/ ImportResolved \/ KmzSettled \/ ReaderLoad \/ KmlSettled
  \/ ReaderError \/ SelectFromList \/ InitializeMap \/ RenderEffect \/ SelectFromLayer

SpecPage == PageInit /\ [][PageNext]_vars

\* ---------------------------------------------- properties of the viewer page
\* The name ends in ".kmz", whatever the case of its letters.
KmzSuffix(name) ==
  /\ Len(name) >= 4
  /\ name[Len(name) - 3] = "."
  /\ name[Len(name) - 2] \in {"k", "K"}
  /\ name[Len(name) - 1] \in {"m", "M"}
  /\ name[Len(name)] \in {"z", "Z"}

\* The tag handleFileUpload gave the file of upload u is "kmz" exactly when
\* its name ends in .kmz, else "kml".
TagFollowsName(u) ==
  /\ uploads[u].fileType \in {"kml", "kmz"}
  /\ uploads[u].fileType = "kmz" <=> KmzSuffix(uploads[u].file.name)

Invoked(u, fn) == IsDefined(uploads[u].parser) /\ Get(uploads[u].parser).fn = fn

SalvageKeeps(p) ==
  /\ IsDefined(Winner(p))
  /\ Get(Winner(p)).coords # <<>>
  /\ \E i \in 1..Len(Get(Winner(p)).coords[1].text) : Get(Winner(p)).coords[1].text[i] # " "

KeptBlocks == {i \in 1..Len(input.text.placemarks) : SalvageKeeps(input.text.placemarks[i])}

\* C15: every Element the Salvage Parser produced carries the fixed default
\* style (line colour #3700ff, fill colour #42eedc, fill opacity 0.2, nothing
\* else) and no length/area metadata, and only the Placemark blocks whose
\* geometry has a coordinates run with at least one token contribute an Element.
C15_SalvageDefaultStyleNoMetadata ==
  ResolvedAfterParserError =>
    /\ \A k \in 1..Len(Get(result).elements) :
         LET e == Get(result).elements[k]
         IN /\ IsDefined(e.style)
            /\ Get(e.style).style.color = Some(<<"#", "3", "7", "0", "0", "f", "f">>)
            /\ Get(e.style).style.fillColor = Some(<<"#", "4", "2", "e", "e", "d", "c">>)
            /\ Get(e.style).style.fillOpacity = Some(20)
            /\ Get(e.style).style.width = Undefined
            /\ Get(e.style).style.strokeOpacity = Undefined
            /\ Get(e.style).style.iconScale = Undefined
            /\ Get(e.style).style.iconUrl = Undefined
            /\ e.style = Get(result).elements[1].style
            /\ e.metadata = Undefined
    /\ Len(Get(result).elements) <= Cardinality(KeptBlocks)
    /\ ~faults.salvage => Len(Get(result).elements) = Cardinality(KeptBlocks)

\* The Salvage Parser went over two Placemark blocks, one of them without a
\* usable coordinates run, and emitted one Element.
C15_Witness ==
  /\ ResolvedAfterParserError
  /\ Len(input.text.placemarks) = 2
  /\ Cardinality(KeptBlocks) = 1
  /\ Len(Get(result).elements) = 1

\* --------------------------------------------------------- pure functions
\* The functions of lib/kml-parser.ts that depend on their argument only,
\* each called on its own: one of the tokenizers or the Color Codec once,
\* preprocessKml up to MaxPasses times, each time on what it returned before.
MaxTextLen == 5

MaxPasses == 2

MaxTagLen == 2

CoordChars == {"1", "2", ",", " ", "x"}

ColorChars == {"0", "a", "f"}

\* Colour texts: every text of eight characters, and texts of other lengths.
ColorTexts ==
  [1..8 -> ColorChars] \cup SeqsUpTo(ColorChars, 2)
  \cup {[i \in 1..7 |-> "f"], [i \in 1..9 |-> "f"]}

\* The attribute names a root tag is written with.
TagAttributes == {"id", "xmlns", "xmlns:xsi", "xmlns:gx", "xmlns:atom", "xmlns:kml"}

\* Texts with and without an opening <kml tag.
RootTexts ==
  {Text(rootTag, TRUE, usesGx, <<>>, pms) :
     rootTag \in {Undefined} \cup {Some(t) : t \in SeqsUpTo(TagAttributes, MaxTagLen)},
     usesGx \in BOOLEAN, pms \in {<<>>, <<OnePoint>>}}

FnCall(fn, arg) == [fn |-> fn, arg |-> arg]

FnCalls ==
  {FnCall("parseCoordinates", Undefined)}
  \cup {FnCall(fn, Some(t)) :
          fn \in {"parseCoordinates", "parseCoordinatesText"},
          t \in SeqsUpTo(CoordChars, MaxTextLen)}
  \cup {FnCall("kmlColorToHex", Undefined)}
  \cup {FnCall("kmlColorToHex", Some(t)) : t \in ColorTexts}
  \cup {FnCall("preprocessKml", Some(t)) : t \in RootTexts}

FnInit ==
  /\ fnArg \in FnCalls
  /\ fnOuts = <<>>
  /\ KmlIdle /\ KmzIdle /\ PageIdle

CallParseCoordinates ==
  /\ fnArg.fn = "parseCoordinates" /\ fnOuts = <<>>
  /\ fnOuts' = <<parseCoordinates(fnArg.arg)>>
  /\ UNCHANGED <<fnArg, kmlVars, kmzVars, pageVars>>

CallParseCoordinatesText ==
  /\ fnArg.fn = "parseCoordinatesText" /\ fnOuts = <<>>
  /\ fnOuts' = <<parseCoordinatesText(Get(fnArg.arg))>>
  /\ UNCHANGED <<fnArg, kmlVars, kmzVars, pageVars>>

CallKmlColorToHex ==
  /\ fnArg.fn = "kmlColorToHex" /\ fnOuts = <<>>
  /\ fnOuts' = <<kmlColorToHex(fnArg.arg)>>
  /\ UNCHANGED <<fnArg, kmlVars, kmzVars, pageVars>>

CallPreprocessKml ==
  /\ fnArg.fn = "preprocessKml" /\ Len(fnOuts) < MaxPasses
  /\ fnOuts' = Append(fnOuts, preprocessKml(IF fnOuts = <<>> THEN Get(fnArg.arg)
                                            ELSE fnOuts[Len(fnOuts)]))
  /\ UNCHANGED <<fnArg, kmlVars, kmzVars, pageVars>>

FnNext ==
  CallParseCoordinates \/ CallParseCoordinatesText \/ CallKmlColorToHex \/ CallPreprocessKml

SpecFn == FnInit /\ [][FnNext]_vars

\* ------------------------------------------ properties of the pure functions
\* A tokenizer was called and returned.
Tokenized ==
  fnArg.fn \in {"parseCoordinates", "parseCoordinatesText"} /\ fnOuts # <<>>

\* The text given to the tokenizer, empty when none was given.
TokenizerText == IF IsDefined(fnArg.arg) THEN Get(fnArg.arg) ELSE <<>>

\* The position of the last character before i that is no whitespace, 0 if
\* there is none.
LastInkBefore(s, i) ==
  LET ink == {j \in 1..(i - 1) : s[j] # " "}
  IN IF ink = {} THEN 0 ELSE CHOOSE j \in ink : \A k \in ink : k <= j

\* The positions of s where a token starts once the whitespace that follows
\* commas is removed: a character that is no whitespace, at the start of the
\* text or after whitespace that does not follow a comma.
TokenStarts(s) ==
  {i \in 1..Len(s) :
     /\ s[i] # " "
     /\ \/ LastInkBefore(s, i) = 0
        \/ LastInkBefore(s, i) < i - 1 /\ s[LastInkBefore(s, i)] # ","}

\* The k-th token of s: from its start to the start of the next, whitespace
\* dropped.
TokenAt(s, k) ==
  LET starts == TokenStarts(s)
      from == CHOOSE i \in starts : Cardinality({j \in starts : j < i}) = k - 1
      later == {j \in starts : j > from}
      to == IF later = {} THEN Len(s) ELSE (CHOOSE j \in later : \A l \in later : j <= l) - 1
  IN SelectSeq(SubSeq(s, from, to), LAMBDA c : c # " ")

\* The comma-separated fields of a token.
Fields(token) == SplitOn(token, ",", <<>>)

\* The field is no number: it does not start with a digit.
FailsNumericParse(field) == field = <<>> \/ field[1] \notin {"0", "1", "2", "3"}

\* C16 (as stated): for every token, if its longitude, its latitude or an
\* altitude it has fails numeric parsing, the tokenizer gives (0,0,0) for it;
\* also when only the altitude is no number.
C16_AnyBadFieldDegrades ==
  Tokenized =>
    \A k \in 1..Cardinality(TokenStarts(TokenizerText)) :
      LET fields == Fields(TokenAt(TokenizerText, k))
      IN (\/ FailsNumericParse(fields[1])
          \/ Len(fields) < 2
          \/ Len(fields) >= 2 /\ FailsNumericParse(fields[2])
          \/ Len(fields) >= 3 /\ FailsNumericParse(fields[3]))
         => /\ k <= Len(fnOuts[1])
            /\ fnOuts[1][k] = <<0, 0, 0>>

\* C17: tokenization is total: absent, empty and whitespace-only input give
\* the empty sequence; any other input gives one triple for each
\* whitespace-separated token (whitespace after commas removed first), in the
\* order of the input, each triple being three numbers.
C17_TokenizationTotal ==
  Tokenized =>
    LET out == fnOuts[1]
        s == TokenizerText
    IN /\ Len(out) = Cardinality(TokenStarts(s))
       /\ (\A i \in 1..Len(s) : s[i] = " ") => out = <<>>
       /\ \A k \in 1..Len(out) :
            /\ Len(out[k]) = 3
            /\ out[k] = ParseTuple(TokenAt(s, k))

\* parseCoordinates gave two triples for "x 1,2": the garbage token first
\* and degraded, the good one second.
C17_Witness ==
  /\ fnArg = FnCall("parseCoordinates", Some(<<"x", " ", "1", ",", "2">>))
  /\ fnOuts = <<<<<<0, 0, 0>>, <<1, 2, 0>>>>>>

\* C18: the Color Codec maps every text c of eight characters to '#' followed
\* by c[6:8), c[4:6), c[2:4) (red, green, blue; the alpha c[0:2) is dropped),
\* and an absent text or one of another length to #3700ff.
C18_ColorCodec ==
  (fnArg.fn = "kmlColorToHex" /\ fnOuts # <<>>) =>
    IF IsDefined(fnArg.arg) /\ Len(Get(fnArg.arg)) = 8
    THEN LET c == Get(fnArg.arg)
         IN fnOuts[1] = <<"#", c[7], c[8], c[5], c[6], c[3], c[4]>>
    ELSE fnOuts[1] = <<"#", "3", "7", "0", "0", "f", "f">>

\* The codec turned aaff00a0 (alpha aa, blue ff, green 00, red a0) into #a000ff.
C18_Witness ==
  /\ fnArg = FnCall("kmlColorToHex", Some(<<"a", "a", "f", "f", "0", "0", "a", "0">>))
  /\ fnOuts = <<<<"#", "a", "0", "0", "0", "f", "f">>>>

\* The tag declares the namespace: it has an attribute of that very name.
Declares(tag, ns) == \E i \in 1..Len(tag) : tag[i] = ns

FiveNamespaces == {"xmlns", "xmlns:xsi", "xmlns:gx", "xmlns:atom", "xmlns:kml"}

\* preprocessKml was called on a text that has an opening <kml tag.
RepairedRooted ==
  fnArg.fn = "preprocessKml" /\ fnOuts # <<>> /\ IsDefined(Get(fnArg.arg).rootTag)

\* C19 (as stated): on a text with a <kml root tag, namespace repair adds to
\* the tag each of the five declarations the tag does not declare, and changes
\* no other attribute and nothing outside the tag; a tag that declares only
\* xmlns:gx gets the default xmlns.
C19_MissingNamespacesInjected ==
  RepairedRooted =>
    LET before == Get(fnArg.arg)
        after == fnOuts[1]
        tag == Get(before.rootTag)
        newTag == Get(after.rootTag)
    IN /\ IsDefined(after.rootTag)
       /\ after = [before EXCEPT !.rootTag = after.rootTag]
       /\ Len(newTag) >= Len(tag)
       /\ SubSeq(newTag, 1, Len(tag)) = tag
       /\ \A ns \in FiveNamespaces :
            /\ Declares(newTag, ns)
            /\ Declares(tag, ns) =>
                 \A i \in (Len(tag) + 1)..Len(newTag) : newTag[i] # ns
       /\ \A i \in (Len(tag) + 1)..Len(newTag) : newTag[i] \in FiveNamespaces

\* C20 (as stated): namespace repair is idempotent, on a text that has a <kml
\* root tag and on one that has none and is wrapped: a second pass returns
\* what the first returned.
C20_RepairIdempotent ==
  (fnArg.fn = "preprocessKml" /\ Len(fnOuts) >= 2) => fnOuts[2] = fnOuts[1]

\* ------------------------------------------ properties of the Style Table
\* parseStyles returned the table styles for the tree xmlDoc.
StylesBuilt == IsDefined(xmlDoc) /\ Called("parseStyles")

\* The place of node i in the order parseStyles visits the nodes in.
VisitOf(i) ==
  CHOOSE k \in 1..Len(StyleNodesOf) : StyleOrder(StyleNodesOf)[k] = i

\* The visit of node i was made: no exception ended the pass before it was over.
Visited(i) == faults.styles = 0 \/ VisitOf(i) < faults.styles

\* The table as it stood when the visit of node i began.
TableBefore(i) == StylesFold(StyleNodesOf, StyleOrder(StyleNodesOf), VisitOf(i) - 1, EmptyTable)

\* Node i is a StyleMap with an id whose "normal" Pair refers to an id that
\* was in the table when the node was visited.
ResolvableMap(i) ==
  /\ StyleNodesOf[i].tag = "StyleMap"
  /\ Truthy(StyleNodesOf[i].id)
  /\ Visited(i)
  /\ IsDefined(NormalReference(StyleNodesOf[i]))
  /\ Get(NormalReference(StyleNodesOf[i])) \in DOMAIN TableBefore(i)

RECURSIVE MapResolves(_)
MapResolves(i) ==
  /\ StyleNodesOf[i].tag = "StyleMap"
  /\ Truthy(StyleNodesOf[i].id)
  /\ IsDefined(NormalReference(StyleNodesOf[i]))
  /\ LET x == Get(NormalReference(StyleNodesOf[i]))
     IN \/ \E j \in 1..Len(StyleNodesOf) :
             StyleNodesOf[j].tag = "Style" /\ StyleNodesOf[j].id = Some(x) /\ x # <<>>
        \/ \E j \in 1..(i - 1) : StyleNodesOf[j].id = Some(x) /\ MapResolves(j)

\* Node i gives its id an entry.
GivesEntry(i) ==
  /\ Truthy(StyleNodesOf[i].id)
  /\ StyleNodesOf[i].tag = "Style" \/ MapResolves(i)

\* C30: the Style Table is built in one pass, the Style nodes first, then the
\* StyleMaps in document order against the table built so far: an id has an
\* entry exactly when a Style node carries it or a StyleMap carries it whose
\* "normal" Pair refers to a Style or to a StyleMap that comes earlier and
\* was itself resolved; a StyleMap that refers to a later StyleMap gets none,
\* and a resolved chain ends at the object of a Style node.
C30_SinglePassStyleTable ==
  (StylesBuilt /\ faults.styles = 0) =>
    /\ \A id \in {<<"a">>, <<"b">>, <<"m">>, <<"n">>, <<"z">>} :
         id \in DOMAIN styles <=> \E i \in 1..Len(StyleNodesOf) :
                                    StyleNodesOf[i].id = Some(id) /\ GivesEntry(i)
    /\ DOMAIN styles \subseteq {<<"a">>, <<"b">>, <<"m">>, <<"n">>, <<"z">>}
    /\ \A i \in 1..Len(StyleNodesOf) :
         MapResolves(i) =>
           /\ styles[Get(StyleNodesOf[i].id)].ref \in 1..Len(StyleNodesOf)
           /\ StyleNodesOf[styles[Get(StyleNodesOf[i].id)].ref].tag = "Style"
           /\ Get(NormalReference(StyleNodesOf[i])) \in DOMAIN styles
           /\ styles[Get(StyleNodesOf[i].id)] = styles[Get(NormalReference(StyleNodesOf[i]))]

\* In a document with the StyleMap n (to #m) first, the StyleMap m (to #a)
\* second and the Style a last, m got the entry of a and n got none.
C30_Witness ==
  /\ ResolvedStructured
  /\ Len(StyleNodesOf) = 3
  /\ StyleNodesOf[1].id = Some(<<"n">>) /\ StyleNodesOf[1].tag = "StyleMap"
  /\ StyleNodesOf[2].id = Some(<<"m">>) /\ StyleNodesOf[2].tag = "StyleMap"
  /\ StyleNodesOf[3].id = Some(<<"a">>) /\ StyleNodesOf[3].tag = "Style"
  /\ DOMAIN styles = {<<"a">>, <<"m">>}
  /\ styles[<<"m">>] = styles[<<"a">>]

\* -------------------------------------------- properties of the metadata
\* parsePlacemarks returned the elements of the tree xmlDoc.
Extracted == pc \in {"assemble", "resolved"} /\ IsDefined(xmlDoc)

\* Distance(p, q) of two triples (lng, lat, alt): the Haversine term of their
\* latitudes and longitudes.
Distance(p, q) == calculateDistance(p[2], p[1], q[2], q[1])

\* The sum of the distances between consecutive points of a sequence, as the
\* sequence of its summands: none for a single point.
ConsecutiveDistances(points) == [k \in 1..(Len(points) - 1) |-> Distance(points[k], points[k + 1])]

\* The triples of the LineString that wins in Placemark p; none when another
\* kind wins or the LineString has no coordinates.
LinePoints(p) ==
  IF IsDefined(Winner(p)) /\ Get(Winner(p)).tag = "LineString" /\ Get(Winner(p)).coords # <<>>
  THEN parseCoordinates(Some(Get(Winner(p)).coords[1].text))
  ELSE <<>>

\* The positions of the Placemarks that raise nothing and are LineStrings with
\* at least one point.
LinePlacemarks ==
  {i \in 1..Len(Placemarks) : i \notin faults.placemarks /\ LinePoints(Placemarks[i]) # <<>>}

LineElements == {k \in 1..Len(elements) : elements[k].type = "LineString"}

\* C22: on the structured path every LineString Placemark with at least one
\* point is emitted, with metadata length the sum of the distances between
\* consecutive points only (nothing for a single point), and a LineString
\* without points is not emitted.
C22_LineLengthIsConsecutiveSum ==
  Extracted =>
    /\ Cardinality(LineElements) = Cardinality(LinePlacemarks)
    /\ \A k \in LineElements :
         /\ Len(elements[k].coordinates.v) >= 1
         /\ IsDefined(elements[k].metadata)
         /\ Get(elements[k].metadata).length = ConsecutiveDistances(elements[k].coordinates.v)
         /\ Len(Get(elements[k].metadata).length) = Len(elements[k].coordinates.v) - 1
    /\ \E f \in [LineElements -> LinePlacemarks] :
         /\ \A k, l \in LineElements : k < l => f[k] < f[l]
         /\ \A k \in LineElements : elements[k].coordinates.v = LinePoints(Placemarks[f[k]])

\* A LineString of two points was emitted with one summand, one of a single
\* point with none.
C22_Witness ==
  /\ ResolvedStructured
  /\ Len(elements) = 2
  /\ elements[1].type = "LineString" /\ elements[2].type = "LineString"
  /\ Len(elements[1].coordinates.v) = 2
  /\ Get(elements[1].metadata).length = <<<<2, 1, 1, 2>>>>
  /\ Len(elements[2].coordinates.v) = 1
  /\ Get(elements[2].metadata).length = <<>>

\* C23 (as stated): the area of every Polygon Element of the structured path
\* is PolygonArea of ring 0, the outer boundary, alone: the inner rings have
\* no part in it, and it is 0 when ring 0 has fewer than 3 points.
C23_AreaOfOuterRingOnly ==
  Extracted =>
    \E f \in [1..Len(elements) -> 1..Len(Placemarks)] :
      /\ \A k \in 1..(Len(elements) - 1) : f[k] < f[k + 1]
      /\ \A k \in 1..Len(elements) :
           /\ f[k] \notin faults.placemarks
           /\ FromWinner(elements[k], Placemarks[f[k]])
           /\ elements[k].type = "Polygon" =>
                /\ IsDefined(elements[k].metadata)
                /\ Get(elements[k].metadata).area
                     = calculatePolygonArea(OuterTriples(Get(Winner(Placemarks[f[k]]))))
                /\ Len(elements[k].coordinates.v[1]) < 3 => Get(elements[k].metadata).area = <<>>

\* ------------------------------------------- properties of parseKmz's errors
\* The call of parseKmz has settled.
KmzSettledCall == kpc \in {"resolved", "rejected"}

\* The entry the archive gives as the KML document can be read and its text
\* is "" or whitespace only.
BlankKmlEntry ==
  /\ IsDefined(file.zip)
  /\ KmzSuffix(file.name)
  /\ LET entries == Get(file.zip)
         at == IF DocKmlPositions(entries) # {} THEN Least(DocKmlPositions(entries))
               ELSE Least(KmlPositions(entries))
     IN /\ DocKmlPositions(entries) \cup KmlPositions(entries) # {}
        /\ entries[at].readable
        /\ entries[at].text \in {EmptyText, BlankText}

\* A file was given whose name does not end in .kmz.
NotKmzName == file.present /\ ~KmzSuffix(file.name)

\* C29: for an archive whose KML entry is empty or whitespace only, and for
\* a file whose name does not end in .kmz in any case of letters, parseKmz
\* never calls parseKml and never returns a Document: once settled it has
\* rejected, with "Extracted KML file is empty" and "Not a KMZ file".
C29_BlankOrMisnamedRejected ==
  /\ BlankKmlEntry \/ NotKmzName =>
       /\ ~Called("parseKml")
       /\ \A f \in KmlSteps : ~Called(f)
       /\ kmzResult = Undefined
       /\ kpc # "resolved"
  /\ BlankKmlEntry /\ KmzSettledCall =>
       /\ kpc = "rejected"
       /\ kmzError = Some("Extracted KML file is empty")
       /\ Called("kmlFile.async")
  /\ NotKmzName /\ KmzSettledCall =>
       /\ kpc = "rejected"
       /\ kmzError = Some("Not a KMZ file")
       /\ called = <<>>

\* The call rejected an archive whose only KML entry has whitespace in it
\* and nothing else, after extracting that entry.
C29_Witness ==
  /\ kpc = "rejected"
  /\ IsDefined(kmlFile) /\ Get(kmlFile).blank /\ ~Get(kmlFile).text.empty
  /\ Called("kmlFile.async")
  /\ kmzError = Some("Extracted KML file is empty")

\* --------------------------------------------- properties of the page state
\* Upload u ran to its end.
Done(u) == uploads[u].at = "done"

\* Upload u cannot deliver a Document: the file cannot be read as text, or
\* the parser rejects it.
Fails(u) ==
  \/ uploads[u].fileType = "kml" /\ ~uploads[u].file.readable
  \/ ~IsDefined(uploads[u].file.document)

\* The state describes the file of upload u.
Describes(u) ==
  /\ fileName = Some(uploads[u].file.name)
  /\ fileSize = Some(uploads[u].file.size)
  /\ fileType = Some(uploads[u].fileType)

\* C24 (as stated): once every upload has completed, and the file selected
\* last gave a Document, kmlData is that Document and fileName, fileSize and
\* fileType describe the same file, whatever the order in which the results
\* of overlapping uploads arrived.
C24_LatestUploadWins ==
  LET last == Len(uploads)
  IN (last >= 1 /\ (\A u \in 1..last : Done(u)) /\ ~Fails(last)) =>
       /\ Describes(last)
       /\ kmlData = Some(Loaded(last, Get(uploads[last].file.document)))

\* C25 (as stated): isLoading is true as long as an upload has not recorded
\* its Document or its error.
C25_LoadingUntilRecorded ==
  (\E u \in 1..Len(uploads) : ~Done(u)) => isLoading = TRUE

\* C26 (as stated): the step that records the failure of an upload sets
\* error to a message, leaves kmlData and selectedElement as they were, and
\* finds fileName, fileSize and fileType describing the failed file; the
\* step that accepts a new file clears error.
C26_FailureFrame ==
  [][/\ \A u \in 1..Len(uploads) :
          (~Done(u) /\ uploads'[u].at = "done" /\ Fails(u)) =>
            /\ IsDefined(pageError')
            /\ kmlData' = kmlData
            /\ selectedElement' = selectedElement
            /\ Describes(u)
            /\ UNCHANGED <<fileName, fileSize, fileType>>
     /\ Len(uploads') > Len(uploads) => pageError' = Undefined]_vars

\* C27 (as stated): selectedElement is null or one of the Elements of the
\* kmlData now loaded.
C27_SelectionInDocument ==
  IsDefined(selectedElement) =>
    /\ IsDefined(kmlData)
    /\ \E i \in 1..Len(Get(kmlData).elements) :
         Get(kmlData).elements[i] = Get(selectedElement)

\* A layer can be made for the Element.
Drawable(e) ==
  \/ e.type \in {"Point", "LineString"} /\ Len(e.coordinates.v) >= 2
  \/ e.type = "Polygon" /\ Len(e.coordinates.v) >= 1

====
